---------------------------- MODULE Spec2Model ----------------------------
(***************************************************************************)
(* A model of dotnet-ai-docgen: the file enumerators and the pattern-based *)
(* structural extractors (dotnet_parser.py, language_parser.py) and the    *)
(* web front end that drives them (web_app.py).                            *)
(*                                                                         *)
(* File texts are sequences of one-character strings, so that the regular  *)
(* expressions of the source are modelled character by character.          *)
(***************************************************************************)
EXTENDS Integers, Sequences, FiniteSets, TLC

(***************************************************************************)
(* State.                                                                  *)
(***************************************************************************)
VARIABLES
    xast,       \* extraction of one text: the tree the text is rendered from
    xfile,      \* the file: [readable, text]
    records,    \* the CSharpFile of each run of dotnet_parser on it, in order
    parses,     \* the result of each run of language_parser's parse_file
    repo,       \* a repository on disk: [root, exists, tree, fault, unreadable]
    self_csharp_files,  \* dotnet_parser.DotNetParser.csharp_files
    findAllResult,      \* the outcome of find_all_csharp_files, None before
    projectStructure,   \* what get_project_structure returned, None before
    foundFiles,         \* what language_parser's find_files returned
    filesList,          \* the response of /api/repo/files to a dotnet request
    current_repo_path,  \* web_app's global: None, or a directory
    current_docs_dir,   \* web_app's global: None, or the built documentation
    generation_status,  \* web_app's global dict
    disk,               \* the cloned working directories that exist
    clones,             \* how many directories mkdtemp has made
    tasks,              \* the request and background threads of the server
    overview,           \* generate_project_overview: the structure and summary
    generator,          \* an AIDocGenerator and its call of _call_ai_api
    handler,            \* a GitHubRepoHandler and its call of clone_repository
    branch_listing,     \* a GitHubRepoHandler and its call of get_branches
    docgen              \* generate_docs: the file pages and index.rst

extractVars == <<xast, xfile, records, parses>>

repoVars == <<repo, self_csharp_files, findAllResult, projectStructure,
              foundFiles, filesList>>

webVars == <<current_repo_path, current_docs_dir, generation_status, disk,
             clones, tasks>>

svcVars == <<overview, generator, handler, branch_listing, docgen>>

vars == <<extractVars, repoVars, webVars, svcVars>>

(***************************************************************************)
(* Optional values: None, or a value.  A list field of a dataclass is None *)
(* until __post_init__ replaces it.                                        *)
(***************************************************************************)
None == [is_none |-> TRUE, v |-> <<>>]

Some(x) == [is_none |-> FALSE, v |-> x]

(***************************************************************************)
(* The parts of the state a specification does not use stay as they are    *)
(* here.                                                                   *)
(***************************************************************************)
ExtractIdle ==
    /\ xast = [namespace |-> FALSE, outer |-> "none", items |-> <<>>]
    /\ xfile = [readable |-> TRUE, text |-> <<>>]
    /\ records = <<>>
    /\ parses = <<>>

RepoIdle ==
    /\ repo = [root |-> <<"/">>, exists |-> FALSE, tree |-> {},
               fault |-> "none", unreadable |-> {}]
    /\ self_csharp_files = <<>>
    /\ findAllResult = None
    /\ projectStructure = None
    /\ foundFiles = None
    /\ filesList = None

WebIdle ==
    /\ current_repo_path = None
    /\ current_docs_dir = None
    /\ generation_status = [status |-> "idle", progress |-> 0, message |-> "",
                            files_processed |-> 0, total_files |-> 0]
    /\ disk = {}
    /\ clones = 0
    /\ tasks = <<>>

SvcIdle ==
    /\ docgen = None
    /\ overview = None
    /\ generator = None
    /\ handler = None
    /\ branch_listing = None

(***************************************************************************)
(* Characters and character classes of Python's re.                        *)
(***************************************************************************)
WS == {" ", "\t", "\n", "\r"}

Lower == {"a", "b", "c", "d", "e", "f", "g", "h", "i", "j", "k", "l", "m",
          "n", "o", "p", "q", "r", "s", "t", "u", "v", "w", "x", "y", "z"}

Upper == {"A", "B", "C", "D", "E", "F", "G", "H", "I", "J", "K", "L", "M",
          "N", "O", "P", "Q", "R", "S", "T", "U", "V", "W", "X", "Y", "Z"}

Digit == {"0", "1", "2", "3", "4", "5", "6", "7", "8", "9"}

\* \w
WordCh == Lower \cup Upper \cup Digit \cup {"_"}

\* [\w.] of the namespace pattern
NsCh == WordCh \cup {"."}

\* [\w\s,<>] of the base-list part of class_pattern and interface_pattern
BaseCh == WordCh \cup WS \cup {",", "<", ">"}

\* [\w<>\[\],\s] of the return type of method_pattern
TypeCh == WordCh \cup WS \cup {"<", ">", "[", "]", ","}

kw_public == <<"p", "u", "b", "l", "i", "c">>
kw_private == <<"p", "r", "i", "v", "a", "t", "e">>
kw_internal == <<"i", "n", "t", "e", "r", "n", "a", "l">>
kw_protected == <<"p", "r", "o", "t", "e", "c", "t", "e", "d">>
kw_static == <<"s", "t", "a", "t", "i", "c">>
kw_abstract == <<"a", "b", "s", "t", "r", "a", "c", "t">>
kw_sealed == <<"s", "e", "a", "l", "e", "d">>
kw_class == <<"c", "l", "a", "s", "s">>
kw_interface == <<"i", "n", "t", "e", "r", "f", "a", "c", "e">>
kw_enum == <<"e", "n", "u", "m">>
kw_namespace == <<"n", "a", "m", "e", "s", "p", "a", "c", "e">>
kw_async == <<"a", "s", "y", "n", "c">>

(***************************************************************************)
(* Text helpers.  Positions are 1-based; the end of a match is the index   *)
(* following its last character.                                           *)
(***************************************************************************)
Min(S) == CHOOSE x \in S : \A y \in S : x <= y

Max(S) == CHOOSE x \in S : \A y \in S : x >= y

\* the character at i, "" beyond the text
At(t, i) == IF i >= 1 /\ i <= Len(t) THEN t[i] ELSE ""

StartsWith(t, i, kw) ==
    /\ i >= 1
    /\ i + Len(kw) - 1 <= Len(t)
    /\ \A k \in 1..Len(kw) : t[i + k - 1] = kw[k]

\* the first position >= i whose character is not in S (Len(t) + 1 when
\* every character from i on is in S)
Skip(t, i, S) ==
    IF i > Len(t) THEN i
    ELSE Min({j \in i..(Len(t) + 1) : j = Len(t) + 1 \/ t[j] \notin S})

\* str.find(c, i): the first position >= i holding c, 0 when there is none
Find(t, i, c) ==
    LET hits == {j \in i..Len(t) : t[j] = c}
    IN  IF hits = {} THEN 0 ELSE Min(hits)

\* t[i:j] of Python, on 1-based positions with j exclusive
Slice(t, i, j) == SubSeq(t, i, j - 1)

\* str.strip()
Strip(s) ==
    LET keep == {j \in 1..Len(s) : s[j] \notin WS}
    IN  IF keep = {} THEN <<>> ELSE SubSeq(s, Min(keep), Max(keep))

\* str.split(sep) for a one-character separator
RECURSIVE SplitOn(_, _)
SplitOn(s, sep) ==
    LET i == Find(s, 1, sep)
    IN  IF i = 0 THEN <<s>>
        ELSE <<SubSeq(s, 1, i - 1)>> \o SplitOn(SubSeq(s, i + 1, Len(s)), sep)

\* the first position >= i whose character is in S
SkipNot(t, i, S) ==
    IF i > Len(t) THEN i
    ELSE Min({j \in i..(Len(t) + 1) : j = Len(t) + 1 \/ t[j] \in S})

\* str.split(): the whitespace-delimited tokens
RECURSIVE SplitWs(_)
SplitWs(s) ==
    LET i == Skip(s, 1, WS)
    IN  IF i > Len(s) THEN <<>>
        ELSE LET j == SkipNot(s, i, WS)
             IN  <<Slice(s, i, j)>> \o SplitWs(SubSeq(s, j, Len(s)))

NoMatch == [found |-> FALSE]

(***************************************************************************)
(* re matching.  Every pattern of the source is anchored here at a start   *)
(* position and yields the match Python's backtracking finds first.        *)
(***************************************************************************)
\* (?:kw1\s+|kw2\s+|...)? at i: the position after the first alternative
\* that matches with its whitespace, i itself when none does
AfterOptKw(t, i, kws) ==
    LET alts == {k \in 1..Len(kws) :
                    /\ StartsWith(t, i, kws[k])
                    /\ At(t, i + Len(kws[k])) \in WS}
    IN  IF alts = {} THEN i
        ELSE Skip(t, i + Len(kws[Min(alts)]), WS)

RECURSIVE AfterPrefixes(_, _, _)
AfterPrefixes(t, i, prefixes) ==
    IF prefixes = <<>> THEN i
    ELSE AfterPrefixes(t, AfterOptKw(t, i, Head(prefixes)), Tail(prefixes))

\* <prefixes> kw \s+ (\w+) (?:\s*:\s*[\w\s,<>]+)? \s* \{   anchored at i
DeclMatchAt(t, i, prefixes, kw, inherit) ==
    LET j == AfterPrefixes(t, i, prefixes)
        k == Skip(t, j + Len(kw), WS)
        e == Skip(t, k, WordCh)
        b == Skip(t, e, WS)
        r == Skip(t, b + 1, BaseCh)
    IN  IF ~StartsWith(t, j, kw) \/ k = j + Len(kw) \/ e = k THEN NoMatch
        ELSE IF At(t, b) = "{"
             THEN [found |-> TRUE, start |-> i, end |-> b + 1,
                   group1 |-> Slice(t, k, e)]
        ELSE IF inherit /\ At(t, b) = ":" /\ r > b + 1 /\ At(t, r) = "{"
             THEN [found |-> TRUE, start |-> i, end |-> r + 1,
                   group1 |-> Slice(t, k, e)]
        ELSE NoMatch

class_pattern(t, i) ==
    DeclMatchAt(t, i,
                <<<<kw_public, kw_private, kw_internal, kw_protected>>,
                  <<kw_static>>, <<kw_abstract>>, <<kw_sealed>>>>,
                kw_class, TRUE)

interface_pattern(t, i) ==
    DeclMatchAt(t, i, <<<<kw_public, kw_private, kw_internal>>>>,
                kw_interface, TRUE)

enum_pattern(t, i) ==
    DeclMatchAt(t, i, <<<<kw_public, kw_private, kw_internal>>>>,
                kw_enum, FALSE)

\* namespace\s+([\w.]+) anchored at i
namespace_pattern(t, i) ==
    LET k == Skip(t, i + Len(kw_namespace), WS)
        e == Skip(t, k, NsCh)
    IN  IF StartsWith(t, i, kw_namespace) /\ k > i + Len(kw_namespace) /\ e > k
        THEN [found |-> TRUE, start |-> i, end |-> e, group1 |-> Slice(t, k, e)]
        ELSE NoMatch

\* the pattern of dotnet_parser.py in the place of the one of
\* language_parser.py
simple_class_pattern_with_brace(t, i) == class_pattern(t, i)

\* the class_pattern of language_parser.py, which asks for no "{":
\* <prefixes> class \s+ (\w+) anchored at i
simple_class_pattern(t, i) ==
    LET j == AfterPrefixes(t, i,
                <<<<kw_public, kw_private, kw_internal, kw_protected>>,
                  <<kw_static>>, <<kw_abstract>>, <<kw_sealed>>>>)
        k == Skip(t, j + Len(kw_class), WS)
        e == Skip(t, k, WordCh)
    IN  IF StartsWith(t, j, kw_class) /\ k > j + Len(kw_class) /\ e > k
        THEN [found |-> TRUE, start |-> i, end |-> e, group1 |-> Slice(t, k, e)]
        ELSE NoMatch

\* kw\s+ at pos: the positions after it, most whitespace first (the order
\* in which the greedy \s+ gives characters back)
Descending(j, k) == [n \in 1..(k - j) |-> k - n + 1]

WsKwCands(t, pos, kw) ==
    IF ~StartsWith(t, pos, kw) THEN <<>>
    ELSE Descending(pos + Len(kw), Skip(t, pos + Len(kw), WS))

\* (?:static\s+)?(?:async\s+)? with static taken, sc its end positions
ViaStatic(t, sc) ==
    IF sc = <<>> THEN <<>> ELSE WsKwCands(t, sc[1], kw_async) \o sc

\* \s+(?:static\s+)?(?:async\s+)? after the access keyword, which ends
\* before k, the whitespace after it ending before m: the positions where
\* the return type may start, in backtracking order
CandsFrom(t, k, m) ==
    IF m = k THEN <<>>
    ELSE ViaStatic(t, WsKwCands(t, m, kw_static))
         \o WsKwCands(t, m, kw_async) \o <<m>>
         \o [n \in 1..(m - k - 1) |-> m - n]

TypeStartCands(t, k) == CandsFrom(t, k, Skip(t, k, WS))

\* (\w+)\s*\([^)]*\) with the name starting at ns: the name ends before e,
\* "(" is at b and the first ")" after it at c
SigClose(ns, e, b, c) ==
    IF c = 0 THEN NoMatch
    ELSE [found |-> TRUE, ns |-> ns, ne |-> e, open |-> b, close |-> c]

SigOpen(t, ns, e, b) ==
    IF At(t, b) # "(" THEN NoMatch ELSE SigClose(ns, e, b, Find(t, b + 1, ")"))

SigParen(t, ns, e) ==
    IF e = ns THEN NoMatch ELSE SigOpen(t, ns, e, Skip(t, e, WS))

SigTail(t, ns) == SigParen(t, ns, Skip(t, ns, WordCh))

\* \??\s+(\w+)\s*\([^)]*\) after a return type that ends before j
AfterTypeName(t, j2, k) == IF k = j2 THEN NoMatch ELSE SigTail(t, k)

AfterTypeWs(t, j2) == AfterTypeName(t, j2, Skip(t, j2, WS))

AfterType(t, j) == AfterTypeWs(t, IF At(t, j) = "?" THEN j + 1 ELSE j)

\* [\w<>\[\],\s]+ from p: of the ends the rest still matches after, the
\* longest (the greedy choice), with the rest's match
LongestType(p, ends) ==
    IF \A c \in ends : ~c.rest.found THEN NoMatch
    ELSE LET best == CHOOSE c \in ends :
                        /\ c.rest.found
                        /\ \A d \in ends : d.rest.found => d.e <= c.e
         IN  [found |-> TRUE, p |-> p, e |-> best.e, rest |-> best.rest]

TypeParse(t, p) ==
    LongestType(p, {[e |-> e, rest |-> AfterType(t, e)] :
                        e \in (p + 1)..Skip(t, p, TypeCh)})

AccessKeywords == <<kw_public, kw_private, kw_internal, kw_protected, kw_static>>

\* the match built from the first return-type start that leads to a match
MethodFromParses(t, i, typed) ==
    IF \A n \in 1..Len(typed) : ~typed[n].found THEN NoMatch
    ELSE LET f == typed[Min({n \in 1..Len(typed) : typed[n].found})]
         IN  [found |-> TRUE, start |-> i, end |-> f.rest.close + 1,
              group1 |-> Slice(t, f.p, IF At(t, f.e) = "?" THEN f.e + 1 ELSE f.e),
              group2 |-> Slice(t, f.rest.ns, f.rest.ne),
              params |-> Slice(t, f.rest.open + 1, f.rest.close)]

MethodFromCands(t, i, cands) ==
    MethodFromParses(t, i, [n \in 1..Len(cands) |-> TypeParse(t, cands[n])])

MethodFromKw(t, i, alts) ==
    IF alts = {} THEN NoMatch
    ELSE MethodFromCands(t, i,
            TypeStartCands(t, i + Len(AccessKeywords[Min(alts)])))

\* (?:public|private|internal|protected|static)\s+(?:static\s+)?
\* (?:async\s+)?([\w<>\[\],\s]+\??)\s+(\w+)\s*\([^)]*\)   anchored at i
method_pattern(t, i) ==
    MethodFromKw(t, i, {a \in 1..Len(AccessKeywords) :
                            StartsWith(t, i, AccessKeywords[a])})

\* re.finditer: of the matches anchored at the positions of the text, the
\* leftmost, then the leftmost of those starting at or after its end, ...
FirstMatch(ms) == CHOOSE m \in ms : \A o \in ms : m.start <= o.start

RECURSIVE NonOverlapping(_)
NonOverlappingFrom(ms, first) ==
    <<first>> \o NonOverlapping({m \in ms : m.start >= first.end})

NonOverlapping(ms) ==
    IF ms = {} THEN <<>> ELSE NonOverlappingFrom(ms, FirstMatch(ms))

\* re.search: the leftmost match, NoMatch when there is none
Leftmost(ms) == IF ms = {} THEN NoMatch ELSE FirstMatch(ms)

finditer_class(t) ==
    NonOverlapping({class_pattern(t, j) : j \in 1..Len(t)} \ {NoMatch})

finditer_interface(t) ==
    NonOverlapping({interface_pattern(t, j) : j \in 1..Len(t)} \ {NoMatch})

finditer_enum(t) ==
    NonOverlapping({enum_pattern(t, j) : j \in 1..Len(t)} \ {NoMatch})

finditer_method(t) ==
    NonOverlapping({method_pattern(t, j) : j \in 1..Len(t)} \ {NoMatch})

finditer_simple_class(t) ==
    NonOverlapping({simple_class_pattern(t, j) : j \in 1..Len(t)} \ {NoMatch})

\* the last match instead of the first
search_namespace_last(t) ==
    LET ms == {namespace_pattern(t, j) : j \in 1..Len(t)} \ {NoMatch}
    IN  IF ms = {} THEN NoMatch
        ELSE CHOOSE m \in ms : \A o \in ms : m.start >= o.start

search_namespace(t) ==
    Leftmost({namespace_pattern(t, j) : j \in 1..Len(t)} \ {NoMatch})

(***************************************************************************)
(* dotnet_parser.py: the entity extractors.                                *)
(***************************************************************************)
\* the parameter loop of _extract_methods: split on every comma, keep the
\* first two whitespace-delimited tokens of a segment that has two
param_pair_swapped(parts) ==
    IF Len(parts) >= 2 THEN <<[type |-> parts[2], name |-> parts[1]]>> ELSE <<>>

param_pair(parts) ==
    IF Len(parts) >= 2 THEN <<[type |-> parts[1], name |-> parts[2]]>> ELSE <<>>

RECURSIVE parameters_of(_)
parameters_of(segments) ==
    IF segments = <<>> THEN <<>>
    ELSE param_pair(SplitWs(Strip(Head(segments))))
         \o parameters_of(Tail(segments))

\* the parameter text taken as one segment
method_info_unsplit(m) ==
    [name |-> m.group2,
     return_type |-> Strip(m.group1),
     parameters |-> parameters_of(<<m.params>>)]

method_info(m) ==
    [name |-> m.group2,
     return_type |-> Strip(m.group1),
     parameters |-> IF Strip(m.params) = <<>> THEN <<>>
                    ELSE parameters_of(SplitOn(m.params, ","))]

method_infos(ms) == [n \in 1..Len(ms) |-> method_info(ms[n])]

extract_methods(class_body) == method_infos(finditer_method(class_body))

\* the running balance of _extract_class_info after the character at j,
\* counted from start_pos
brace_count(content, start_pos, j) ==
    Cardinality({k \in start_pos..j : content[k] = "{"})
        - Cardinality({k \in start_pos..j : content[k] = "}"})

\* the scan ending on the first "}" it meets, whatever the balance
class_body_end_first_close(content, start_pos) == Find(content, start_pos, "}")

\* the brace scan of _extract_class_info from start_pos: the position of the
\* "}" on which the loop breaks (the balance is back to zero and in_class
\* is set), 0 when the loop runs to the end of the text
class_body_end(content, start_pos) ==
    LET closes == {i \in start_pos..Len(content) :
                      /\ content[i] = "}"
                      /\ brace_count(content, start_pos, i) = 0
                      /\ \E k \in start_pos..(i - 1) : content[k] = "{"}
    IN  IF closes = {} THEN 0 ELSE Min(closes)

Ellipsis == <<".", ".", ".">>

\* methods taken from the rest of the text when the block never closes
class_info_scan_to_end(content, match, close) ==
    [name |-> match.group1,
     methods |-> extract_methods(SubSeq(content, match.start,
                    IF close = 0 THEN Len(content) ELSE close)),
     full_code |-> Slice(content, match.start, match.end) \o Ellipsis]

class_info(content, match, close) ==
    [name |-> match.group1,
     methods |-> IF close = 0 THEN <<>>
                 ELSE extract_methods(SubSeq(content, match.start, close)),
     full_code |-> Slice(content, match.start, match.end) \o Ellipsis]

extract_class_info(content, match) ==
    class_info(content, match, class_body_end(content, match.start))

extract_interface_info(content, match) == [name |-> match.group1]

extract_enum_info(content, match) == [name |-> match.group1]

\* the dataclass CSharpFile as its generated __init__ leaves it
CSharpFile_fields(path, relative_path) ==
    [path |-> path, relative_path |-> relative_path, namespace |-> None,
     classes |-> None, interfaces |-> None, enums |-> None]

\* a CSharpFile without __post_init__
post_init_missing(f) == f

\* CSharpFile.__post_init__
post_init(f) ==
    [f EXCEPT !.classes = IF @.is_none THEN Some(<<>>) ELSE @,
              !.interfaces = IF @.is_none THEN Some(<<>>) ELSE @,
              !.enums = IF @.is_none THEN Some(<<>>) ELSE @]

\* list defaults shared between the instances: a new record starts with the
\* entries of the one before
CSharpFile_shared_defaults(path, relative_path) ==
    IF records = <<>> THEN post_init(CSharpFile_fields(path, relative_path))
    ELSE [records[Len(records)] EXCEPT !.path = path,
                                       !.relative_path = relative_path,
                                       !.namespace = None]

\* CSharpFile(path=..., relative_path=...)
CSharpFile(path, relative_path) ==
    post_init(CSharpFile_fields(path, relative_path))

\* list.append for every element of items; on None it raises (AttributeError)
CanAppend(lst, items) == items = <<>> \/ ~lst.is_none

AppendAll(lst, items) == IF items = <<>> THEN lst ELSE Some(lst.v \o items)

class_infos(content, cm) ==
    [n \in 1..Len(cm) |-> extract_class_info(content, cm[n])]

interface_infos(content, im) ==
    [n \in 1..Len(im) |-> extract_interface_info(content, im[n])]

enum_infos(content, em) ==
    [n \in 1..Len(em) |-> extract_enum_info(content, em[n])]

\* _parse_csharp_file, statement by statement.  Whatever raises inside is
\* caught by the method's own except clause, which keeps what was assigned
\* before: an append on a list that is None ends the parse there.
add_enums(f, infos) ==
    IF ~CanAppend(f.enums, infos) THEN f
    ELSE [f EXCEPT !.enums = AppendAll(@, infos)]

add_interfaces(f, content, infos) ==
    IF ~CanAppend(f.interfaces, infos) THEN f
    ELSE add_enums([f EXCEPT !.interfaces = AppendAll(@, infos)],
                   enum_infos(content, finditer_enum(content)))

add_classes(f, content, infos) ==
    IF ~CanAppend(f.classes, infos) THEN f
    ELSE add_interfaces([f EXCEPT !.classes = AppendAll(@, infos)], content,
                        interface_infos(content, finditer_interface(content)))

set_namespace(f, namespace_match) ==
    IF namespace_match.found
    THEN [f EXCEPT !.namespace = Some(namespace_match.group1)]
    ELSE f

parse_content(f, content) ==
    add_classes(set_namespace(f, search_namespace(content)), content,
                class_infos(content, finditer_class(content)))

\* _parse_csharp_file(csharp_file) on a file [readable, text]: the record as
\* the call leaves it; open() raising leaves it as it was
parse_csharp_file(f, file) ==
    IF ~file.readable THEN f ELSE parse_content(f, file.text)

(***************************************************************************)
(* language_parser.py: DotNetParser.parse_file.  The result is the dict it *)
(* returns; raised tells that open() raised instead.                       *)
(***************************************************************************)
parse_file_result(namespace_match, classes) ==
    [raised |-> FALSE,
     namespace |-> IF namespace_match.found
                   THEN Some(namespace_match.group1) ELSE None,
     classes |-> classes,
     classes_count |-> Len(classes)]

group1s(cm) == [n \in 1..Len(cm) |-> cm[n].group1]

parse_file(file) ==
    IF ~file.readable
    THEN [raised |-> TRUE, namespace |-> None, classes |-> <<>>, classes_count |-> 0]
    ELSE parse_file_result(search_namespace(file.text),
                           group1s(finditer_simple_class(file.text)))

(***************************************************************************)
(* Input texts.  A text is rendered from a small syntax tree, so that what *)
(* the text declares is known independently of the patterns: an optional   *)
(* namespace block, an optional class Order (closed by its "}", or left    *)
(* open), and the members in it.                                           *)
(***************************************************************************)
MaxItems == 2

txt_namespace_open ==
    <<"n", "a", "m", "e", "s", "p", "a", "c", "e", " ", "A", "p", "p",
      ".", "M", "o", "d", "e", "l", "s", " ", "{", " ">>

txt_class_open ==
    <<"p", "u", "b", "l", "i", "c", " ", "c", "l", "a", "s", "s", " ",
      "O", "r", "d", "e", "r", " ", "{", " ">>

txt_GetTotal ==
    <<"p", "u", "b", "l", "i", "c", " ", "i", "n", "t", " ", "G", "e",
      "t", "T", "o", "t", "a", "l", "(", "i", "n", "t", " ", "q", "t",
      "y", ",", " ", "d", "e", "c", "i", "m", "a", "l", " ", "p", "r",
      "i", "c", "e", ")", " ", "{", " ", ".", ".", ".", " ", "}", " ">>

txt_Reset ==
    <<"p", "r", "i", "v", "a", "t", "e", " ", "i", "n", "t", " ", "c",
      "o", "u", "n", "t", ";", " ", "p", "r", "i", "v", "a", "t", "e",
      " ", "s", "t", "a", "t", "i", "c", " ", "v", "o", "i", "d", " ",
      "R", "e", "s", "e", "t", "(", ")", " ", "{", " ", "}", " ">>

txt_Line ==
    <<"c", "l", "a", "s", "s", " ", "L", "i", "n", "e", " ", "{", " ",
      "p", "u", "b", "l", "i", "c", " ", "v", "o", "i", "d", " ", "A",
      "d", "d", "(", "I", "t", "e", "m", " ", "i", "t", "e", "m", ",",
      " ", "i", "n", "t", " ", "n", ")", " ", "{", " ", "}", " ", "}", " ">>

txt_Shapes ==
    <<"i", "n", "t", "e", "r", "f", "a", "c", "e", " ", "I", "S", "h",
      "a", "p", "e", " ", "{", " ", "}", " ", "p", "u", "b", "l", "i",
      "c", " ", "e", "n", "u", "m", " ", "C", "o", "l", "o", "r", " ",
      "{", " ", "R", "e", "d", " ", "}", " ">>

s_App_Models == <<"A", "p", "p", ".", "M", "o", "d", "e", "l", "s">>
s_Order == <<"O", "r", "d", "e", "r">>
s_GetTotal == <<"G", "e", "t", "T", "o", "t", "a", "l">>
s_Reset == <<"R", "e", "s", "e", "t">>
s_Add == <<"A", "d", "d">>
s_Line == <<"L", "i", "n", "e">>
s_IShape == <<"I", "S", "h", "a", "p", "e">>
s_Color == <<"C", "o", "l", "o", "r">>
s_int == <<"i", "n", "t">>
s_qty == <<"q", "t", "y">>
s_decimal == <<"d", "e", "c", "i", "m", "a", "l">>
s_price == <<"p", "r", "i", "c", "e">>

ItemKinds == {"GetTotal", "Reset", "Line", "Shapes"}

ItemText(kind) ==
    CASE kind = "GetTotal" -> txt_GetTotal
      [] kind = "Reset" -> txt_Reset
      [] kind = "Line" -> txt_Line
      [] kind = "Shapes" -> txt_Shapes

\* the members that are methods, with the name each declares
MethodKinds == {"GetTotal", "Reset"}

MethodName(kind) ==
    CASE kind = "GetTotal" -> s_GetTotal
      [] kind = "Reset" -> s_Reset

SeqsUpTo(S, n) == UNION {[1..k -> S] : k \in 0..n}

FileAsts ==
    [namespace : BOOLEAN, outer : {"none", "closed", "unclosed"},
     items : SeqsUpTo(ItemKinds, MaxItems)]

RECURSIVE RenderItems(_)
RenderItems(items) ==
    IF items = <<>> THEN <<>>
    ELSE ItemText(Head(items)) \o RenderItems(Tail(items))

RenderClass(outer, body) ==
    CASE outer = "none" -> body
      [] outer = "closed" -> txt_class_open \o body \o <<"}", " ">>
      [] outer = "unclosed" -> txt_class_open \o body

RenderNamespace(namespace, outer, cls) ==
    IF ~namespace THEN cls
    ELSE IF outer = "unclosed" THEN txt_namespace_open \o cls
    ELSE txt_namespace_open \o cls \o <<"}">>

Render(ast) ==
    RenderNamespace(ast.namespace, ast.outer,
                    RenderClass(ast.outer, RenderItems(ast.items)))

\* the end-to-end scenario of the specification, character for character
Text_Order ==
    <<"n", "a", "m", "e", "s", "p", "a", "c", "e", " ", "A", "p", "p",
      ".", "M", "o", "d", "e", "l", "s", " ", "{", " ", "p", "u", "b",
      "l", "i", "c", " ", "c", "l", "a", "s", "s", " ", "O", "r", "d",
      "e", "r", " ", "{", " ", "p", "u", "b", "l", "i", "c", " ", "i",
      "n", "t", " ", "G", "e", "t", "T", "o", "t", "a", "l", "(", "i",
      "n", "t", " ", "q", "t", "y", ",", " ", "d", "e", "c", "i", "m",
      "a", "l", " ", "p", "r", "i", "c", "e", ")", " ", "{", " ", ".",
      ".", ".", " ", "}", " ", "}", " ", "}">>

(***************************************************************************)
(* Extraction of one file text by both parsers, each run up to MaxRuns     *)
(* times on the unchanged file.                                            *)
(***************************************************************************)
MaxRuns == 2

InitExtract ==
    /\ xast \in FileAsts
    /\ xfile \in [readable : BOOLEAN, text : {Render(xast)}]
    /\ records = <<>>
    /\ parses = <<>>
    /\ RepoIdle
    /\ WebIdle
    /\ SvcIdle

\* lines 86-93 of find_all_csharp_files for one file: a fresh CSharpFile,
\* then _parse_csharp_file on it
ExtractCSharp ==
    /\ Len(records) < MaxRuns
    /\ records' = Append(records,
            parse_csharp_file(CSharpFile("/repo/src/Order.cs", "src/Order.cs"), xfile))
    /\ UNCHANGED <<xast, xfile, parses, repoVars, webVars, svcVars>>

\* language_parser.DotNetParser.parse_file on the same file
ExtractParseFile ==
    /\ Len(parses) < MaxRuns
    /\ parses' = Append(parses, parse_file(xfile))
    /\ UNCHANGED <<xast, xfile, records, repoVars, webVars, svcVars>>

NextExtract == ExtractCSharp \/ ExtractParseFile

SpecExtract == InitExtract /\ [][NextExtract]_vars

(***************************************************************************)
(* A repository on disk.  The entries a tree may hold, in the order        *)
(* os.scandir lists them; a tree is the set of the indices of those it     *)
(* holds.                                                                  *)
(***************************************************************************)
txt_Program ==
    <<"n", "a", "m", "e", "s", "p", "a", "c", "e", " ", "A", "p", "p",
      " ", "{", " ", "c", "l", "a", "s", "s", " ", "P", "r", "o", "g",
      "r", "a", "m", " ", "{", " ", "}", " ", "}">>

s_App == <<"A", "p", "p">>
\* the default 'N/A' of the file listing
s_NA == <<"N", "/", "A">>

U ==
    <<[rel |-> <<"Program.cs">>, is_dir |-> FALSE, text |-> txt_Program],
      [rel |-> <<"src">>, is_dir |-> TRUE, text |-> <<>>],
      [rel |-> <<"src", "Order.cs">>, is_dir |-> FALSE, text |-> txt_Shapes],
      [rel |-> <<"src", "app.component.ts">>, is_dir |-> FALSE, text |-> <<>>],
      [rel |-> <<"src", "notes.md">>, is_dir |-> FALSE, text |-> <<>>],
      [rel |-> <<"bin">>, is_dir |-> TRUE, text |-> <<>>],
      [rel |-> <<"bin", "Debug">>, is_dir |-> TRUE, text |-> <<>>],
      [rel |-> <<"bin", "Debug", "Generated.cs">>, is_dir |-> FALSE, text |-> <<>>],
      [rel |-> <<"Views.cs">>, is_dir |-> TRUE, text |-> <<>>],
      [rel |-> <<"dist">>, is_dir |-> TRUE, text |-> <<>>],
      [rel |-> <<"dist", "main.js">>, is_dir |-> FALSE, text |-> <<>>],
      [rel |-> <<"lib">>, is_dir |-> TRUE, text |-> <<>>],
      [rel |-> <<"lib", "Util.cs">>, is_dir |-> FALSE, text |-> <<>>]>>

\* the entries a tree may or may not hold; it holds the others
Optional ==
    {i \in 1..Len(U) :
        U[i].rel \in {<<"Program.cs">>, <<"src", "Order.cs">>,
                      <<"src", "app.component.ts">>,
                      <<"bin", "Debug", "Generated.cs">>, <<"Views.cs">>,
                      <<"lib", "Util.cs">>}}

Trees == {((1..Len(U)) \ Optional) \cup chosen : chosen \in SUBSET Optional}

\* the directory whose listing may fail, and how: not at all, with a
\* PermissionError, with another OSError
FaultDir == <<"src">>

FaultKinds == {"none", "perm", "oserr"}

\* the file that may be unreadable
MayBeUnreadable == {i \in 1..Len(U) : U[i].rel = <<"src", "Order.cs">>}

\* the root: a temporary directory, or a checkout below a directory that
\* happens to be called docs
Roots == {<<"/", "tmp", "docgen_web_k3x9">>, <<"/", "home", "dev", "docs", "shop">>}

Repos ==
    {fs \in {[root |-> r, exists |-> TRUE, tree |-> t, fault |-> f,
              unreadable |-> u] :
                r \in Roots, t \in Trees, f \in FaultKinds,
                u \in SUBSET MayBeUnreadable} : fs.unreadable \subseteq fs.tree}
    \cup {[root |-> r, exists |-> FALSE, tree |-> {}, fault |-> "none",
           unreadable |-> {}] : r \in Roots}

Name(rel) == rel[Len(rel)]

Parent(rel) == SubSeq(rel, 1, Len(rel) - 1)

\* Path.suffix of a name
Suffix(name) ==
    CASE name \in {"Program.cs", "Order.cs", "Generated.cs", "Util.cs", "Views.cs"} -> ".cs"
      [] name = "app.component.ts" -> ".ts"
      [] name = "notes.md" -> ".md"
      [] name = "main.js" -> ".js"
      [] OTHER -> ""

\* str(path) of a path given by its parts
RECURSIVE JoinPath(_)
JoinPath(p) ==
    IF p = <<>> THEN ""
    ELSE IF Len(p) = 1 THEN p[1]
    ELSE p[1] \o "/" \o JoinPath(Tail(p))

PathStr(p) ==
    IF p = <<>> THEN "."
    ELSE IF p[1] = "/" THEN "/" \o JoinPath(Tail(p))
    ELSE JoinPath(p)

(***************************************************************************)
(* Path.rglob as pathlib of CPython 3.11 walks: every directory, parents   *)
(* first, yields its entries whose name matches; a directory whose listing *)
(* raises PermissionError is passed over with all below it, any other      *)
(* OSError leaves the generator, after the paths yielded before.           *)
(***************************************************************************)
Ok(paths) == [raised |-> FALSE, paths |-> paths]

Raised(paths) == [raised |-> TRUE, paths |-> paths]

Then(a, b) ==
    IF a.raised THEN a ELSE [raised |-> b.raised, paths |-> a.paths \o b.paths]

RECURSIVE Ascending(_)
Ascending(S) == IF S = {} THEN <<>> ELSE <<Min(S)>> \o Ascending(S \ {Min(S)})

scandir(fs, dir) == Ascending({i \in fs.tree : Parent(U[i].rel) = dir})

ScandirFault(fs, dir) == IF dir = FaultDir THEN fs.fault ELSE "none"

\* fnmatch of a name against "*" + ext
glob_matches(name, ext) == ext = "" \/ Suffix(name) = ext

RECURSIVE rglob_from(_, _, _)
RECURSIVE rglob_each(_, _, _)
rglob_from(fs, dir, ext) ==
    CASE ScandirFault(fs, dir) = "perm" -> Ok(<<>>)
      [] ScandirFault(fs, dir) = "oserr" -> Raised(<<>>)
      [] OTHER ->
            Then(Ok(SelectSeq(scandir(fs, dir),
                              LAMBDA i : glob_matches(Name(U[i].rel), ext))),
                 rglob_each(fs, SelectSeq(scandir(fs, dir),
                                          LAMBDA i : U[i].is_dir), ext))

rglob_each(fs, dirs, ext) ==
    IF dirs = <<>> THEN Ok(<<>>)
    ELSE Then(rglob_from(fs, U[Head(dirs)].rel, ext),
              rglob_each(fs, Tail(dirs), ext))

rglob(fs, ext) == IF ~fs.exists THEN Ok(<<>>) ELSE rglob_from(fs, <<>>, ext)

\* path.parts of an entry: the parts of the root, then those below it
parts(fs, i) == fs.root \o U[i].rel

\* any(excluded in path.parts for excluded in exclude_dirs)
is_excluded(fs, i, exclude) ==
    \E k \in 1..Len(parts(fs, i)) : parts(fs, i)[k] \in exclude

\* what open() of an entry gives: a directory cannot be opened for reading
file_of(fs, i) ==
    [readable |-> ~U[i].is_dir /\ i \notin fs.unreadable, text |-> U[i].text]

(***************************************************************************)
(* dotnet_parser.py: find_all_csharp_files and get_project_structure.      *)
(***************************************************************************)
exclude_dirs ==
    {"bin", "obj", "node_modules", ".git", ".vs", "packages", "TestResults",
     ".idea", ".vscode", "docs", "Documentation"}

kept(fs, idxs, exclude) == SelectSeq(idxs, LAMBDA i : ~is_excluded(fs, i, exclude))

\* whether _parse_csharp_file ends in its except clause, which prints the
\* warning: open() raised, or an append met a list that is None
parse_failed(f, file) ==
    \/ ~file.readable
    \/ f.classes.is_none /\ finditer_class(file.text) # <<>>
    \/ f.interfaces.is_none /\ finditer_interface(file.text) # <<>>
    \/ f.enums.is_none /\ finditer_enum(file.text) # <<>>

new_csharp_file(fs, i) == CSharpFile(PathStr(parts(fs, i)), PathStr(U[i].rel))

\* the record of one entry as the loop body leaves it
parsed_record(fs, i) == parse_csharp_file(new_csharp_file(fs, i), file_of(fs, i))

\* the loop body dropping the record of a file whose parse failed
RECURSIVE parse_all_dropping_failed(_, _)
parse_all_dropping_failed(fs, idxs) ==
    IF idxs = <<>> THEN <<>>
    ELSE (IF parse_failed(new_csharp_file(fs, Head(idxs)), file_of(fs, Head(idxs)))
          THEN <<>> ELSE <<parsed_record(fs, Head(idxs))>>)
         \o parse_all_dropping_failed(fs, Tail(idxs))

\* lines 81-94: the records appended for the entries that pass the exclusion
RECURSIVE parse_all(_, _)
parse_all(fs, idxs) ==
    IF idxs = <<>> THEN <<>>
    ELSE <<parsed_record(fs, Head(idxs))>> \o parse_all(fs, Tail(idxs))

\* the paths the warning "Could not parse" is printed for
warned(fs, idxs) ==
    SelectSeq(idxs, LAMBDA i : parse_failed(new_csharp_file(fs, i), file_of(fs, i)))

warned_paths(fs, idxs) == [k \in 1..Len(idxs) |-> PathStr(parts(fs, idxs[k]))]

\* the outcome of a call: whether it raised, what it returned, the value of
\* self.csharp_files after it, the paths warned about
find_all_raised(self) ==
    [raised |-> TRUE, returned |-> <<>>, csharp_files |-> self, warnings |-> <<>>]

find_all_returned(csharp_files, warnings) ==
    [raised |-> FALSE, returned |-> csharp_files, csharp_files |-> csharp_files,
     warnings |-> warnings]

find_all_loop(self, fs, cs_files) ==
    IF cs_files.raised THEN find_all_raised(self)
    ELSE find_all_returned(parse_all(fs, kept(fs, cs_files.paths, exclude_dirs)),
                           warned_paths(fs, warned(fs, kept(fs, cs_files.paths, exclude_dirs))))

\* lines 70-113, the root existing: list(rglob("*")) is not guarded
find_all_in_root(self, fs, all_files) ==
    IF all_files.raised THEN find_all_raised(self)
    ELSE find_all_loop(self, fs, rglob(fs, ".cs"))

\* the call raising FileNotFoundError for a root that does not exist
find_all_missing_root_raises(self, fs) ==
    IF ~fs.exists THEN find_all_raised(self)
    ELSE find_all_in_root(self, fs, rglob(fs, ""))

\* find_all_csharp_files(), self being the value of self.csharp_files
find_all_csharp_files(self, fs) ==
    IF ~fs.exists
    THEN [raised |-> FALSE, returned |-> <<>>, csharp_files |-> self,
          warnings |-> <<>>]
    ELSE find_all_in_root(self, fs, rglob(fs, ""))

\* get_project_structure()
get_project_structure(root, csharp_files) ==
    [root_path |-> PathStr(root),
     solution_files |-> <<>>,
     project_files |-> <<>>,
     csharp_files |->
        [k \in 1..Len(csharp_files) |->
            [path |-> csharp_files[k].path,
             relative_path |-> csharp_files[k].relative_path,
             namespace |-> csharp_files[k].namespace,
             classes_count |-> Len(csharp_files[k].classes.v),
             interfaces_count |-> Len(csharp_files[k].interfaces.v),
             enums_count |-> Len(csharp_files[k].enums.v)]]]

(***************************************************************************)
(* language_parser.py: the parser of a language and its find_files.        *)
(***************************************************************************)
\* get_parser_for_language: the class of the parser it returns
\* a dispatch without the default: an unknown tag gives the last parser
get_parser_for_language_no_default(language) ==
    CASE language = "dotnet" -> "DotNetParser"
      [] language = "angular" -> "AngularParser"
      [] OTHER -> "HTMLParser"

get_parser_for_language(language) ==
    CASE language = "angular" -> "AngularParser"
      [] language = "html" -> "HTMLParser"
      [] OTHER -> "DotNetParser"

extensions(parser) ==
    CASE parser = "AngularParser" -> <<".ts", ".html", ".css", ".scss">>
      [] parser = "HTMLParser" -> <<".html", ".css", ".js">>
      [] parser = "DotNetParser" -> <<".cs">>

parser_exclude_dirs(parser) ==
    CASE parser = "AngularParser" ->
            {"node_modules", ".git", ".angular", "dist", "build", "coverage",
             ".idea", ".vscode", "docs"}
      [] parser = "HTMLParser" ->
            {"node_modules", ".git", "dist", "build", ".idea", ".vscode"}
      [] parser = "DotNetParser" -> exclude_dirs

\* the 'type' of a file dict: 'csharp', or ext[1:]
file_type(parser, ext) ==
    IF parser = "DotNetParser" THEN "csharp"
    ELSE CASE ext = ".ts" -> "ts"
           [] ext = ".html" -> "html"
           [] ext = ".css" -> "css"
           [] ext = ".scss" -> "scss"
           [] ext = ".js" -> "js"

file_dicts(parser, fs, ext, idxs) ==
    [k \in 1..Len(idxs) |->
        [path |-> PathStr(parts(fs, idxs[k])),
         relative_path |-> PathStr(U[idxs[k]].rel),
         type |-> file_type(parser, ext)]]

\* one rglob loop of find_files: what it appended when the walk ended, or
\* when the walk raised into the except clause around the loop
find_files_ext(parser, fs, ext) ==
    file_dicts(parser, fs, ext,
               kept(fs, rglob(fs, ext).paths, parser_exclude_dirs(parser)))

RECURSIVE find_files_exts(_, _, _)
find_files_exts(parser, fs, exts) ==
    IF exts = <<>> THEN <<>>
    ELSE find_files_ext(parser, fs, Head(exts))
         \o find_files_exts(parser, fs, Tail(exts))

find_files(parser, fs) == find_files_exts(parser, fs, extensions(parser))

(***************************************************************************)
(* web_app.py: the file listing of get_repo_files for a dotnet request,    *)
(* lines 146-193.                                                          *)
(***************************************************************************)
\* open(path): the entry of the tree with that path
open_path(fs, path) ==
    file_of(fs, CHOOSE i \in fs.tree : PathStr(parts(fs, i)) = path)

\* file_data of one file; parsed is {} when parse_file raised
file_data(file_info, parsed) ==
    [path |-> file_info.relative_path,
     type |-> file_info.type,
     namespace |-> IF parsed.raised THEN Some(s_NA) ELSE parsed.namespace,
     classes |-> IF parsed.raised THEN 0 ELSE parsed.classes_count,
     interfaces |-> 0,
     enums |-> 0]

files_list(fs, files) ==
    [k \in 1..Len(files) |->
        file_data(files[k], parse_file(open_path(fs, files[k].path)))]

\* the relative paths the warning "failed to parse" is printed for
list_warnings(fs, files) ==
    SelectSeq([k \in 1..Len(files) |-> files[k].relative_path],
              LAMBDA rp : \E k \in 1..Len(files) :
                             /\ files[k].relative_path = rp
                             /\ ~open_path(fs, files[k].path).readable)

repo_files_response(fs, files) ==
    [status |-> 200, success |-> TRUE, files |-> files_list(fs, files),
     total |-> Len(files), warnings |-> list_warnings(fs, files)]

(***************************************************************************)
(* The enumerators run on a repository.                                    *)
(***************************************************************************)
RequestLanguages == {"dotnet", "angular", "html", "python"}

InitRepo ==
    /\ ExtractIdle
    /\ WebIdle
    /\ SvcIdle
    /\ repo \in Repos
    /\ self_csharp_files = <<>>
    /\ findAllResult = None
    /\ projectStructure = None
    /\ foundFiles = None
    /\ filesList = None

\* the entries the loop of lines 81-94 takes from rglob("*.cs"), those it
\* then skips included, by their parts below the root
loop_entries(fs, all_files, cs_files) ==
    IF ~fs.exists \/ all_files.raised THEN <<>>
    ELSE [k \in 1..Len(cs_files.paths) |-> U[cs_files.paths[k]].rel]

find_all_outcome(r, visited) ==
    Some([raised |-> r.raised, returned |-> r.returned, warnings |-> r.warnings,
          visited |-> visited])

\* dotnet_parser.DotNetParser(root).find_all_csharp_files()
FindAllCSharpFiles ==
    /\ findAllResult.is_none
    /\ \E r \in {find_all_csharp_files(self_csharp_files, repo)} :
          /\ findAllResult' = find_all_outcome(r,
                    loop_entries(repo, rglob(repo, ""), rglob(repo, ".cs")))
          /\ self_csharp_files' = r.csharp_files
    /\ UNCHANGED <<repo, projectStructure, foundFiles, filesList, extractVars,
                   webVars, svcVars>>

\* get_project_structure() on the same parser
GetProjectStructure ==
    /\ projectStructure.is_none
    /\ projectStructure' = Some(get_project_structure(repo.root, self_csharp_files))
    /\ UNCHANGED <<repo, self_csharp_files, findAllResult, foundFiles,
                   filesList, extractVars, webVars, svcVars>>

\* get_parser_for_language(language, root).find_files()
FindFiles ==
    /\ foundFiles.is_none
    /\ \E language \in RequestLanguages :
          foundFiles' = Some([language |-> language,
                              parser |-> get_parser_for_language(language),
                              files |-> find_files(get_parser_for_language(language), repo)])
    /\ UNCHANGED <<repo, self_csharp_files, findAllResult, projectStructure,
                   filesList, extractVars, webVars, svcVars>>

\* the listing of get_repo_files for language 'dotnet'
ListRepoFiles ==
    /\ filesList.is_none
    /\ filesList' = Some(repo_files_response(repo,
                            find_files(get_parser_for_language("dotnet"), repo)))
    /\ UNCHANGED <<repo, self_csharp_files, findAllResult, projectStructure,
                   foundFiles, extractVars, webVars, svcVars>>

NextRepo == FindAllCSharpFiles \/ GetProjectStructure \/ FindFiles \/ ListRepoFiles

SpecRepo == InitRepo /\ [][NextRepo]_vars

(***************************************************************************)
(* Properties of the extraction.                                           *)
(***************************************************************************)
HasItem(kind) == \E k \in 1..Len(xast.items) : xast.items[k] = kind

NoDeclarations == xast.outer = "none" /\ ~HasItem("Line") /\ ~HasItem("Shapes")

Unclosed == xfile.readable /\ xast.outer = "unclosed"

Closed == xfile.readable /\ xast.outer = "closed"

NamesOf(entities) == {entities[k].name : k \in 1..Len(entities)}

\* C2: extracting the end-to-end scenario text yields namespace App.Models,
\* exactly one class entity, named Order, with exactly one method, GetTotal,
\* whose parameters are (int, qty), (decimal, price) in that order.
C2_OrderScenario ==
    \A n \in 1..Len(records) :
        (xfile.readable /\ xfile.text = Text_Order) =>
            /\ records[n].namespace = Some(s_App_Models)
            /\ Len(records[n].classes.v) = 1
            /\ records[n].classes.v[1].name = s_Order
            /\ Len(records[n].classes.v[1].methods) = 1
            /\ records[n].classes.v[1].methods[1].name = s_GetTotal
            /\ records[n].classes.v[1].methods[1].parameters =
                  <<[type |-> s_int, name |-> s_qty],
                    [type |-> s_decimal, name |-> s_price]>>

C2_Witness == records # <<>> /\ xfile.readable /\ xfile.text = Text_Order

\* C4 as stated: a class declaration whose block never closes adds no class
\* entity to the file's record.
C4_UnclosedClassSkipped ==
    \A n \in 1..Len(records) :
        Unclosed => s_Order \notin NamesOf(records[n].classes.v)

\* C4, amended: a class declaration whose block never closes is added to the
\* record as a class entity with an empty method list, and the other
\* entities of the file (the classes that do close, with their methods, the
\* interfaces, the enums, the namespace) are reported as well.
C4_UnclosedClassKept ==
    \A n \in 1..Len(records) :
        Unclosed =>
            /\ Len(records[n].classes.v) >= 1
            /\ records[n].classes.v[1].name = s_Order
            /\ records[n].classes.v[1].methods = <<>>
            /\ xast.namespace => records[n].namespace = Some(s_App_Models)
            /\ HasItem("Shapes") =>
                  /\ s_IShape \in NamesOf(records[n].interfaces.v)
                  /\ s_Color \in NamesOf(records[n].enums.v)
            /\ HasItem("Line") =>
                  \E c \in 2..Len(records[n].classes.v) :
                      /\ records[n].classes.v[c].name = s_Line
                      /\ s_Add \in NamesOf(records[n].classes.v[c].methods)

C4_Witness ==
    records # <<>> /\ Unclosed /\ HasItem("GetTotal") /\ HasItem("Line")

EmptyLists(r) ==
    r.classes = Some(<<>>) /\ r.interfaces = Some(<<>>) /\ r.enums = Some(<<>>)

\* C8: the three entity lists of a record are never null, and they are empty
\* lists when the text declares no class, interface or enum, and when the
\* parse raised; parse_file reports no class for such a text either.
C8_ListsNeverNull ==
    /\ \A n \in 1..Len(records) :
          /\ ~records[n].classes.is_none
          /\ ~records[n].interfaces.is_none
          /\ ~records[n].enums.is_none
          /\ (NoDeclarations \/ ~xfile.readable) => EmptyLists(records[n])
    /\ \A n \in 1..Len(parses) :
          (NoDeclarations /\ ~parses[n].raised) =>
              parses[n].classes = <<>> /\ parses[n].classes_count = 0

C8_Witness ==
    records # <<>> /\ xfile.readable /\ NoDeclarations /\ HasItem("GetTotal")

C10_OuterMethodsFound ==
    \A n \in 1..Len(records) :
        Closed =>
            /\ Len(records[n].classes.v) >= 1
            /\ records[n].classes.v[1].name = s_Order
            /\ \A k \in 1..Len(xast.items) :
                  xast.items[k] \in MethodKinds =>
                      MethodName(xast.items[k])
                          \in NamesOf(records[n].classes.v[1].methods)

C10_Witness ==
    /\ records # <<>> /\ Closed /\ HasItem("Line")
    /\ xast.items[Len(xast.items)] \in MethodKinds

(***************************************************************************)
(* Properties of the enumerators.                                          *)
(***************************************************************************)
\* what a tree holds for a parser, told from the tree alone: the files with
\* an extension of the parser none of whose directories below the root is
\* excluded
ExpectedFiles(fs, parser) ==
    {i \in fs.tree :
        /\ ~U[i].is_dir
        /\ \E e \in 1..Len(extensions(parser)) :
              Suffix(Name(U[i].rel)) = extensions(parser)[e]
        /\ \A k \in 1..(Len(U[i].rel) - 1) :
              U[i].rel[k] \notin parser_exclude_dirs(parser)}

RelPaths(idxs) == {PathStr(U[i].rel) : i \in idxs}

UnderFaultDir(i) == SubSeq(U[i].rel, 1, Len(FaultDir)) = FaultDir

FieldOf(entries, field) == {entries[k][field] : k \in 1..Len(entries)}

PlainRoot == \A k \in 1..Len(repo.root) : repo.root[k] \notin exclude_dirs

FoundAll == ~findAllResult.is_none /\ ~findAllResult.v.raised

\* C1: on a tree that can be listed, each enumerator returns exactly the
\* files of the tree with an allowed extension and no excluded directory
\* below the root, whatever the directories above the root are called.
C1_EnumeratesExactly ==
    (repo.exists /\ repo.fault = "none") =>
        /\ ~foundFiles.is_none =>
              FieldOf(foundFiles.v.files, "relative_path")
                  = RelPaths(ExpectedFiles(repo, foundFiles.v.parser))
        /\ FoundAll =>
              FieldOf(findAllResult.v.returned, "relative_path")
                  = RelPaths(ExpectedFiles(repo, "DotNetParser"))

C5_MissingRootRaises ==
    (~repo.exists /\ ~findAllResult.is_none) => findAllResult.v.raised

\* C5, amended: enumerating a root that does not exist raises nothing;
\* find_all_csharp_files and find_files return an empty list, and the file
\* listing is empty, as for a tree without a matching file.
C5_MissingRootEmpty ==
    ~repo.exists =>
        /\ ~findAllResult.is_none =>
              /\ ~findAllResult.v.raised
              /\ findAllResult.v.returned = <<>>
              /\ self_csharp_files = <<>>
        /\ ~foundFiles.is_none => foundFiles.v.files = <<>>
        /\ ~filesList.is_none =>
              filesList.v.files = <<>> /\ filesList.v.total = 0

C5_Witness ==
    ~repo.exists /\ ~findAllResult.is_none /\ ~foundFiles.is_none
        /\ ~filesList.is_none

\* C6: when the listing of one directory fails, with a permission error or
\* another OS error, the enumeration does not raise and still returns every
\* matching file that is not below that directory.
C6_FaultSkipsOnlySubtree ==
    (repo.exists /\ repo.fault # "none" /\ PlainRoot) =>
        /\ ~findAllResult.is_none =>
              /\ ~findAllResult.v.raised
              /\ RelPaths({i \in ExpectedFiles(repo, "DotNetParser") :
                              ~UnderFaultDir(i)})
                    \subseteq FieldOf(findAllResult.v.returned, "relative_path")
        /\ ~foundFiles.is_none =>
              RelPaths({i \in ExpectedFiles(repo, foundFiles.v.parser) :
                           ~UnderFaultDir(i)})
                  \subseteq FieldOf(foundFiles.v.files, "relative_path")

\* C15: the walk of the enumeration never goes below a directory whose name
\* is in the exclude-set: no entry below such a directory reaches the loop
\* of find_all_csharp_files, not even to be skipped there.
C15_ExcludedPruned ==
    ~findAllResult.is_none =>
        \A k \in 1..Len(findAllResult.v.visited) :
            \A c \in 1..(Len(findAllResult.v.visited[k]) - 1) :
                findAllResult.v.visited[k][c] \notin exclude_dirs

HasEntry(rel) == \E i \in repo.tree : U[i].rel = rel

\* C16: get_parser_for_language gives the .NET parser for 'dotnet', the
\* Angular parser for 'angular', the HTML parser for 'html' and the .NET
\* parser for every other tag, and the parser it gives enumerates with its
\* own extensions and its own excluded directories.
C16_ParserDispatch ==
    ~foundFiles.is_none =>
        /\ foundFiles.v.language = "dotnet" => foundFiles.v.parser = "DotNetParser"
        /\ foundFiles.v.language = "angular" => foundFiles.v.parser = "AngularParser"
        /\ foundFiles.v.language = "html" => foundFiles.v.parser = "HTMLParser"
        /\ foundFiles.v.language \notin {"dotnet", "angular", "html"}
              => foundFiles.v.parser = "DotNetParser"
        /\ FieldOf(foundFiles.v.files, "type") \subseteq
              (CASE foundFiles.v.language = "angular" -> {"ts", "html", "css", "scss"}
                 [] foundFiles.v.language = "html" -> {"html", "css", "js"}
                 [] OTHER -> {"csharp"})
        /\ "bin/Debug/Generated.cs" \notin FieldOf(foundFiles.v.files, "relative_path")
        /\ "dist/main.js" \notin FieldOf(foundFiles.v.files, "relative_path")
        /\ (PlainRoot /\ repo.exists /\ repo.fault = "none") =>
              /\ (foundFiles.v.language = "angular"
                    /\ HasEntry(<<"src", "app.component.ts">>))
                    => "src/app.component.ts"
                          \in FieldOf(foundFiles.v.files, "relative_path")
              /\ (foundFiles.v.language \notin {"angular", "html"}
                    /\ HasEntry(<<"Program.cs">>))
                    => "Program.cs" \in FieldOf(foundFiles.v.files, "relative_path")

C16_Witness ==
    /\ ~foundFiles.is_none
    /\ foundFiles.v.language = "python"
    /\ foundFiles.v.parser = "DotNetParser"
    /\ "Program.cs" \in FieldOf(foundFiles.v.files, "relative_path")

(***************************************************************************)
(* web_app.py: the requests /api/repo/files and /api/generate and the      *)
(* background generation, as threads of the server that interleave between *)
(* their steps.  A working directory is the number mkdtemp gave it.        *)
(***************************************************************************)
MaxTasks == 2

MaxClones == 2

\* the C# files of the cloned repository, and the files a request to
\* /api/generate may select (one of them is not in the repository)
RepoFileNames == <<"src/Order.cs", "src/Line.cs">>

Selections ==
    {{"src/Order.cs", "src/Line.cs"}, {"src/Line.cs", "src/Gone.cs"}}

FreeTask ==
    [kind |-> "free", pc |-> "", dir |-> None, selected_files |-> {},
     todo |-> <<>>, idx |-> 0, total |-> 0, file_docs |-> <<>>, response |-> 0,
     language |-> "", erred |-> FALSE]

Responded(code) == [FreeTask EXCEPT !.response = code]

\* a background thread that has ended: the slot is free again and keeps what
\* the run was asked, what it wrote and the status it set last
Finished(task, final) ==
    [FreeTask EXCEPT !.pc = final,
                     !.language = task.language,
                     !.selected_files = task.selected_files,
                     !.file_docs = task.file_docs,
                     !.erred = task.erred]

\* the values of 'language' the page sends, and the files it lets one
\* select for each
Languages == {"dotnet", "angular", "html"}

SelectionsOf(language) ==
    CASE language = "dotnet" -> Selections
      [] language = "angular" -> {{"src/app.component.ts"}}
      [] OTHER -> {{"src/index.html"}}

Exists(path) == ~path.is_none /\ path.v \in disk

\* a request, or a thread, takes the first slot not in use
IsFree(t) == tasks[t].kind = "free"

FirstFree(t) == IsFree(t) /\ \A u \in 1..(t - 1) : ~IsFree(u)

\* int((idx / total) * 100)
progress_of(idx, total) == (idx * 100) \div total

InitWeb ==
    /\ ExtractIdle
    /\ RepoIdle
    /\ SvcIdle
    /\ current_repo_path = None
    /\ current_docs_dir = None
    /\ generation_status = [status |-> "idle", progress |-> 0, message |-> "",
                            files_processed |-> 0, total_files |-> 0]
    /\ disk = {}
    /\ clones = 0
    /\ tasks = [t \in 1..MaxTasks |-> FreeTask]

\* get_repo_files, lines 121-129: a request without repo_url
RepoFilesRejected(t) ==
    /\ FirstFree(t)
    /\ tasks' = [tasks EXCEPT ![t] = Responded(400)]
    /\ UNCHANGED <<current_repo_path, current_docs_dir, generation_status,
                   disk, clones>>
    /\ UNCHANGED <<extractVars, repoVars, svcVars>>

\* get_repo_files, lines 121-137: the previous repository is removed
RepoFilesCleanup(t) ==
    /\ FirstFree(t)
    /\ disk' = IF Exists(current_repo_path)
               THEN disk \ {current_repo_path.v} ELSE disk
    /\ tasks' = [tasks EXCEPT ![t] = [FreeTask EXCEPT !.kind = "repo_files",
                                                      !.pc = "clone"]]
    /\ UNCHANGED <<current_repo_path, current_docs_dir, generation_status,
                   clones>>
    /\ UNCHANGED <<extractVars, repoVars, svcVars>>

\* get_repo_files, lines 140-143: mkdtemp and clone_repository, which raises
\* when git fails; the handler then answers 500
RepoFilesClone(t) ==
    /\ tasks[t].kind = "repo_files" /\ tasks[t].pc = "clone"
    /\ clones < MaxClones
    /\ clones' = clones + 1
    /\ \E cloned \in BOOLEAN :
          IF cloned
          THEN /\ disk' = disk \cup {clones + 1}
               /\ current_repo_path' = Some(clones + 1)
               /\ tasks' = [tasks EXCEPT ![t].pc = "list",
                                         ![t].dir = Some(clones + 1)]
          ELSE /\ tasks' = [tasks EXCEPT ![t] = Responded(500)]
               /\ UNCHANGED <<disk, current_repo_path>>
    /\ UNCHANGED <<current_docs_dir, generation_status>>
    /\ UNCHANGED <<extractVars, repoVars, svcVars>>

\* get_repo_files, lines 146-193: find_files and the listing, from the
\* directory this request cloned; 500 when find_files raises
RepoFilesList(t) ==
    /\ tasks[t].kind = "repo_files" /\ tasks[t].pc = "list"
    /\ \E code \in {200, 500} :
          tasks' = [tasks EXCEPT ![t] = Responded(code)]
    /\ UNCHANGED <<current_repo_path, current_docs_dir, generation_status,
                   disk, clones>>
    /\ UNCHANGED <<extractVars, repoVars, svcVars>>

\* generate_documentation, lines 393-403: no repo_url, or no file selected
GenerateRejected(t) ==
    /\ FirstFree(t)
    /\ tasks' = [tasks EXCEPT ![t] = Responded(400)]
    /\ UNCHANGED <<current_repo_path, current_docs_dir, generation_status,
                   disk, clones>>
    /\ UNCHANGED <<extractVars, repoVars, svcVars>>

\* generate_documentation, lines 405-425: the status is reset and the
\* background thread started, whatever the status was; the request is
\* answered at once and the slot is the thread's
Generate(t) ==
    /\ FirstFree(t)
    /\ \E language \in Languages :
       \E selected \in SelectionsOf(language) :
          /\ generation_status' =
                [status |-> "generating", progress |-> 0, message |-> "starting",
                 files_processed |-> 0, total_files |-> Cardinality(selected)]
          /\ tasks' = [tasks EXCEPT
                          ![t] = [FreeTask EXCEPT !.kind = "generate_bg",
                                                  !.pc = "clone",
                                                  !.response = 200,
                                                  !.language = language,
                                                  !.selected_files = selected]]
    /\ UNCHANGED <<current_repo_path, current_docs_dir, disk, clones>>
    /\ UNCHANGED <<extractVars, repoVars, svcVars>>

\* the except clause around generate_docs_background, lines 575-577
bg_failed(status) == [status EXCEPT !.status = "error", !.message = "error"]

\* generate_docs_background, lines 436-440: clone unless a repository is there
BgClone(b) ==
    /\ tasks[b].kind = "generate_bg" /\ tasks[b].pc = "clone"
    /\ IF Exists(current_repo_path)
       THEN /\ tasks' = [tasks EXCEPT ![b].pc = "find"]
            /\ UNCHANGED <<current_repo_path, disk, clones, generation_status>>
       ELSE /\ clones < MaxClones
            /\ clones' = clones + 1
            /\ \E cloned \in BOOLEAN :
                  IF cloned
                  THEN /\ disk' = disk \cup {clones + 1}
                       /\ current_repo_path' = Some(clones + 1)
                       /\ tasks' = [tasks EXCEPT ![b].pc = "find"]
                       /\ UNCHANGED generation_status
                  ELSE /\ generation_status' = bg_failed(generation_status)
                       /\ tasks' = [tasks EXCEPT
                                       ![b] = Finished(tasks[b], "error")]
                       /\ UNCHANGED <<disk, current_repo_path>>
    /\ UNCHANGED current_docs_dir
    /\ UNCHANGED <<extractVars, repoVars, svcVars>>

\* what parser.csharp_files holds after find_all_csharp_files on a root:
\* nothing when the root does not exist (dotnet_parser.py 63-65)
csharp_files_in(path) == IF Exists(path) THEN RepoFileNames ELSE <<>>

\* the loop left behind when no file remains
after_file(todo) == IF todo = <<>> THEN "overview" ELSE "file"

\* generate_docs_background, lines 443-460: the parser on current_repo_path,
\* the selected files among those it found
BgFindAll(b) ==
    /\ tasks[b].kind = "generate_bg" /\ tasks[b].pc = "find"
    /\ \E found \in {SelectSeq(csharp_files_in(current_repo_path),
                               LAMBDA f : f \in tasks[b].selected_files)} :
          tasks' = [tasks EXCEPT ![b].dir = current_repo_path,
                                 ![b].todo = found,
                                 ![b].total = Len(found),
                                 ![b].pc = after_file(found)]
    /\ UNCHANGED <<current_repo_path, current_docs_dir, generation_status,
                   disk, clones>>
    /\ UNCHANGED <<extractVars, repoVars, svcVars>>

\* generate_docs_background, lines 462-516: one turn of the loop.  The file
\* is read from the parser's root; the generator answers, or raises, for a
\* missing API key after setting the status to 'error'; every exception ends
\* the turn in the except clause of the loop, which goes on.
BgFile(b) ==
    /\ tasks[b].kind = "generate_bg" /\ tasks[b].pc = "file"
    /\ \E answer \in {"documented", "no_api_key", "failed"} :
          /\ (~Exists(tasks[b].dir)) => answer = "failed"
          /\ generation_status' =
                [generation_status EXCEPT
                    !.files_processed = tasks[b].idx,
                    !.progress = progress_of(tasks[b].idx, tasks[b].total),
                    !.status = IF answer = "no_api_key" THEN "error" ELSE @,
                    !.message = IF answer = "documented" THEN "processing"
                                ELSE "error processing"]
          /\ tasks' = [tasks EXCEPT
                          ![b].idx = @ + 1,
                          ![b].todo = Tail(@),
                          ![b].pc = after_file(Tail(tasks[b].todo)),
                          ![b].erred = @ \/ answer = "no_api_key",
                          ![b].file_docs = IF answer = "documented"
                                           THEN Append(@, Head(tasks[b].todo))
                                           ELSE @]
    /\ UNCHANGED <<current_repo_path, current_docs_dir, disk, clones>>
    /\ UNCHANGED <<extractVars, repoVars, svcVars>>

\* generate_docs_background, lines 518-545: the project overview and the
\* index; an exception of the generator leaves through the outer except
BgOverview(b) ==
    /\ tasks[b].kind = "generate_bg" /\ tasks[b].pc = "overview"
    /\ \E answered \in BOOLEAN :
          IF answered
          THEN /\ generation_status' =
                     [generation_status EXCEPT !.message = "overview"]
               /\ tasks' = [tasks EXCEPT ![b].pc = "build"]
          ELSE /\ generation_status' = bg_failed(generation_status)
               /\ tasks' = [tasks EXCEPT ![b] = Finished(tasks[b], "error")]
    /\ UNCHANGED <<current_repo_path, current_docs_dir, disk, clones>>
    /\ UNCHANGED <<extractVars, repoVars, svcVars>>

\* generate_docs_background, lines 547-573: sphinx-build and the final status
BgBuild(b) ==
    /\ tasks[b].kind = "generate_bg" /\ tasks[b].pc = "build"
    /\ \E built \in BOOLEAN :
          /\ IF built
             THEN /\ current_docs_dir' = Some("build/html")
                  /\ generation_status' =
                        [generation_status EXCEPT !.status = "completed",
                                                  !.progress = 100,
                                                  !.message = "success"]
             ELSE /\ generation_status' =
                        [generation_status EXCEPT !.status = "error",
                                                  !.progress = 90,
                                                  !.message = "build failed"]
                  /\ UNCHANGED current_docs_dir
          /\ tasks' = [tasks EXCEPT
                          ![b] = Finished(tasks[b], IF built THEN "completed"
                                                    ELSE "error")]
    /\ UNCHANGED <<current_repo_path, disk, clones>>
    /\ UNCHANGED <<extractVars, repoVars, svcVars>>

\* generate_from_code and generate_from_file: empty code is answered 400
GenerateCodeRejected(t) ==
    /\ FirstFree(t)
    /\ tasks' = [tasks EXCEPT ![t] = Responded(400)]
    /\ UNCHANGED <<current_repo_path, current_docs_dir, generation_status,
                   disk, clones>>
    /\ UNCHANGED <<extractVars, repoVars, svcVars>>

\* generate_from_code, lines 198-234, and generate_from_file, 237-273: the
\* status is reset and generate_code_docs_background started
GenerateCode(t) ==
    /\ FirstFree(t)
    /\ \E endpoint \in {"code", "file"}, language \in Languages :
          /\ generation_status' =
                [status |-> "generating", progress |-> 0, message |-> "starting",
                 files_processed |-> 0, total_files |-> 1]
          /\ tasks' = [tasks EXCEPT
                          ![t] = [FreeTask EXCEPT !.kind = "code_bg",
                                                  !.pc = "doc",
                                                  !.response = 200,
                                                  !.language = language,
                                                  !.selected_files = {endpoint}]]
    /\ UNCHANGED <<current_repo_path, current_docs_dir, disk, clones>>
    /\ UNCHANGED <<extractVars, repoVars, svcVars>>

\* generate_code_docs_background, lines 281-346: the generator's answer and
\* the two files; a missing API key ends the run with status 'error', any
\* other exception leaves through the outer except
CodeDoc(b) ==
    /\ tasks[b].kind = "code_bg" /\ tasks[b].pc = "doc"
    /\ \E answer \in {"documented", "no_api_key", "failed"} :
          IF answer = "documented"
          THEN /\ generation_status' =
                     [generation_status EXCEPT !.progress = 80,
                                               !.message = "building"]
               /\ tasks' = [tasks EXCEPT
                               ![b].pc = "build",
                               ![b].file_docs = <<"Code">>]
          ELSE /\ generation_status' =
                     [generation_status EXCEPT !.progress = 30,
                                               !.status = "error",
                                               !.message = "error"]
               /\ tasks' = [tasks EXCEPT
                               ![b] = Finished([tasks[b] EXCEPT
                                                   !.erred = answer = "no_api_key"],
                                               "error")]
    /\ UNCHANGED <<current_repo_path, current_docs_dir, disk, clones>>
    /\ UNCHANGED <<extractVars, repoVars, svcVars>>

\* generate_code_docs_background, lines 348-368: the build and the final status
CodeBuild(b) ==
    /\ tasks[b].kind = "code_bg" /\ tasks[b].pc = "build"
    /\ \E built \in BOOLEAN :
          /\ IF built
             THEN /\ current_docs_dir' = Some("build/html")
                  /\ generation_status' =
                        [generation_status EXCEPT !.status = "completed",
                                                  !.progress = 100,
                                                  !.message = "success"]
             ELSE /\ generation_status' =
                        [generation_status EXCEPT !.status = "error",
                                                  !.message = "build failed"]
                  /\ UNCHANGED current_docs_dir
          /\ tasks' = [tasks EXCEPT
                          ![b] = Finished(tasks[b], IF built THEN "completed"
                                                    ELSE "error")]
    /\ UNCHANGED <<current_repo_path, disk, clones>>
    /\ UNCHANGED <<extractVars, repoVars, svcVars>>

NextWeb ==
    \E t \in 1..MaxTasks :
        \/ RepoFilesRejected(t)
        \/ RepoFilesCleanup(t)
        \/ RepoFilesClone(t)
        \/ RepoFilesList(t)
        \/ GenerateRejected(t)
        \/ Generate(t)
        \/ BgClone(t)
        \/ BgFindAll(t)
        \/ BgFile(t)
        \/ BgOverview(t)
        \/ BgBuild(t)
        \/ GenerateCodeRejected(t)
        \/ GenerateCode(t)
        \/ CodeDoc(t)
        \/ CodeBuild(t)

SpecWeb == InitWeb /\ [][NextWeb]_vars

(***************************************************************************)
(* Properties of the web front end.                                        *)
(***************************************************************************)
Reading(b) ==
    tasks[b].kind = "generate_bg" /\ tasks[b].pc = "file"

\* C7: while a background generation is reading its files, the directory it
\* reads from exists and is still the current one: no request running at
\* the same time deletes or replaces it.
C7_WorkingDirectoryKept ==
    \A b \in 1..MaxTasks :
        Reading(b) =>
            /\ Exists(tasks[b].dir)
            /\ current_repo_path = tasks[b].dir

(***************************************************************************)
(* Parameter lists.  The text between the parentheses of one method is     *)
(* built from segments joined by commas; what each segment is expected to  *)
(* give is written next to its text.                                       *)
(***************************************************************************)
MaxParams == 3

txt_Save_open ==
    <<"p", "u", "b", "l", "i", "c", " ", "c", "l", "a", "s", "s", " ",
      "O", "r", "d", "e", "r", " ", "{", " ", "p", "u", "b", "l", "i",
      "c", " ", "v", "o", "i", "d", " ", "S", "a", "v", "e", "(">>

txt_Save_close == <<")", " ", "{", " ", "}", " ", "}">>

seg_typed == <<"i", "n", "t", " ", "q", "t", "y">>

seg_bare == <<"i", "n", "t">>

seg_blank == <<" ">>

seg_modifier ==
    <<" ", "r", "e", "f", " ", "d", "e", "c", "i", "m", "a", "l", " ",
      "p", "r", "i", "c", "e", " ">>

seg_generic_tail == <<" ", "i", "n", "t", ">", " ", "m", "a", "p">>

s_Save == <<"S", "a", "v", "e">>

s_void == <<"v", "o", "i", "d">>

s_ref == <<"r", "e", "f">>

s_int_gt == <<"i", "n", "t", ">">>

s_map == <<"m", "a", "p">>

SegmentKinds == {"typed", "bare", "blank", "modifier", "generic_tail"}

SegmentText(kind) ==
    CASE kind = "typed" -> seg_typed
      [] kind = "bare" -> seg_bare
      [] kind = "blank" -> seg_blank
      [] kind = "modifier" -> seg_modifier
      [] kind = "generic_tail" -> seg_generic_tail

\* the segments with at least two whitespace-delimited tokens, and the first
\* two tokens of each
TwoTokens == {"typed", "modifier", "generic_tail"}

FirstTwo(kind) ==
    CASE kind = "typed" -> [type |-> s_int, name |-> s_qty]
      [] kind = "modifier" -> [type |-> s_ref, name |-> s_decimal]
      [] kind = "generic_tail" -> [type |-> s_int_gt, name |-> s_map]

RECURSIVE JoinSegments(_)
JoinSegments(kinds) ==
    IF kinds = <<>> THEN <<>>
    ELSE IF Len(kinds) = 1 THEN SegmentText(kinds[1])
    ELSE SegmentText(kinds[1]) \o <<",">> \o JoinSegments(Tail(kinds))

ParamAsts == [segments : SeqsUpTo(SegmentKinds, MaxParams)]

RenderSave(ast) == txt_Save_open \o JoinSegments(ast.segments) \o txt_Save_close

InitParams ==
    /\ xast \in ParamAsts
    /\ xfile = [readable |-> TRUE, text |-> RenderSave(xast)]
    /\ records = <<>>
    /\ parses = <<>>
    /\ RepoIdle
    /\ WebIdle
    /\ SvcIdle

SpecParams == InitParams /\ [][NextExtract]_vars

\* the pairs expected of the segments, in textual order
RECURSIVE ExpectedPairs(_)
ExpectedPairs(kinds) ==
    IF kinds = <<>> THEN <<>>
    ELSE (IF Head(kinds) \in TwoTokens THEN <<FirstTwo(Head(kinds))>> ELSE <<>>)
         \o ExpectedPairs(Tail(kinds))

\* C11: the parameter list of a matched method is the text between its
\* parentheses split on every comma, each segment with at least two
\* whitespace-delimited tokens giving the pair (first token, second token) and
\* every other segment giving nothing, in textual order and without an error.
C11_ParametersSplit ==
    \A n \in 1..Len(records) :
        /\ ~records[n].classes.is_none
        /\ Len(records[n].classes.v) = 1
        /\ Len(records[n].classes.v[1].methods) = 1
        /\ records[n].classes.v[1].methods[1].name = s_Save
        /\ records[n].classes.v[1].methods[1].parameters
              = ExpectedPairs(xast.segments)

C11_Witness ==
    /\ Len(records) >= 1
    /\ Len(xast.segments) = MaxParams
    /\ xast.segments[1] = "typed"
    /\ xast.segments[2] \notin TwoTokens
    /\ xast.segments[3] \in TwoTokens
    /\ Len(records[1].classes.v[1].methods[1].parameters) = 2

(***************************************************************************)
(* Texts without a type declaration: statements, a string literal and a    *)
(* comment that hold the words of one, and namespace declarations.         *)
(***************************************************************************)
MaxSnippets == 3

snip_using ==
    <<"u", "s", "i", "n", "g", " ", "S", "y", "s", "t", "e", "m", ";", " ">>

snip_str_class ==
    <<"v", "a", "r", " ", "s", " ", "=", " ", "\"", "c", "l", "a", "s",
      "s", " ", "F", "o", "o", "\"", ";", " ">>

snip_comment_class ==
    <<"/", "/", " ", "c", "l", "a", "s", "s", " ", "B", "a", "r", " ",
      "{", "\n">>

snip_ns_App ==
    <<"n", "a", "m", "e", "s", "p", "a", "c", "e", " ", "A", "p", "p",
      ".", "M", "o", "d", "e", "l", "s", ";", " ">>

snip_ns_Other ==
    <<"n", "a", "m", "e", "s", "p", "a", "c", "e", " ", "O", "t", "h",
      "e", "r", " ", "{", " ", "}", " ">>

s_Foo == <<"F", "o", "o">>

s_Bar == <<"B", "a", "r">>

s_Other == <<"O", "t", "h", "e", "r">>

SnippetKinds == {"using", "str_class", "comment_class", "ns_App", "ns_Other"}

SnippetText(kind) ==
    CASE kind = "using" -> snip_using
      [] kind = "str_class" -> snip_str_class
      [] kind = "comment_class" -> snip_comment_class
      [] kind = "ns_App" -> snip_ns_App
      [] kind = "ns_Other" -> snip_ns_Other

RECURSIVE RenderSnippets(_)
RenderSnippets(kinds) ==
    IF kinds = <<>> THEN <<>>
    ELSE SnippetText(Head(kinds)) \o RenderSnippets(Tail(kinds))

SnippetAsts == [snippets : SeqsUpTo(SnippetKinds, MaxSnippets)]

InitSnippets ==
    /\ xast \in SnippetAsts
    /\ xfile = [readable |-> TRUE, text |-> RenderSnippets(xast.snippets)]
    /\ records = <<>>
    /\ parses = <<>>
    /\ RepoIdle
    /\ WebIdle
    /\ SvcIdle

SpecSnippets == InitSnippets /\ [][NextExtract]_vars

HasSnippet(kind) == \E n \in 1..Len(xast.snippets) : xast.snippets[n] = kind

\* the names the snippets of a set of kinds spell, in textual order
SpelledName(kind) ==
    CASE kind = "str_class" -> s_Foo
      [] kind = "comment_class" -> s_Bar
      [] kind = "ns_App" -> s_App_Models
      [] kind = "ns_Other" -> s_Other

RECURSIVE Spelled(_, _)
Spelled(kinds, of) ==
    IF kinds = <<>> THEN <<>>
    ELSE (IF Head(kinds) \in of THEN <<SpelledName(Head(kinds))>> ELSE <<>>)
         \o Spelled(Tail(kinds), of)

\* C12 as stated: a text whose only "class Foo" is inside a string literal
\* gives a record with a class named Foo.
C12_StringClassReported ==
    \A n \in 1..Len(records) :
        HasSnippet("str_class") =>
            \E c \in 1..Len(records[n].classes.v) :
                records[n].classes.v[c].name = s_Foo

\* C12 amended: parse_file lists the name after every "class" of a string
\* literal or comment; _parse_csharp_file reports such an occurrence only
\* when a "{" follows the name, so the comment's Bar and never the string's
\* Foo.
C12_FalsePositives ==
    /\ \A n \in 1..Len(parses) :
          parses[n].classes
              = Spelled(xast.snippets, {"str_class", "comment_class"})
    /\ \A n \in 1..Len(records) :
          [c \in 1..Len(records[n].classes.v) |-> records[n].classes.v[c].name]
              = Spelled(xast.snippets, {"comment_class"})

C12_Witness ==
    /\ HasSnippet("str_class")
    /\ HasSnippet("comment_class")
    /\ Len(parses) >= 1
    /\ Len(records) >= 1
    /\ Len(parses[1].classes) >= 2
    /\ Len(records[1].classes.v) >= 1

\* C13: the namespace of a record is the path captured by the leftmost match
\* of the namespace pattern, whatever matches follow it; without a match the
\* namespace is absent and the extraction still gives its record.
C13_FirstNamespace ==
    /\ \A n \in 1..Len(records) :
          /\ records[n].namespace
                = IF Spelled(xast.snippets, {"ns_App", "ns_Other"}) = <<>>
                  THEN None
                  ELSE Some(Head(Spelled(xast.snippets, {"ns_App", "ns_Other"})))
          /\ ~records[n].classes.is_none
    /\ \A n \in 1..Len(parses) :
          /\ ~parses[n].raised
          /\ parses[n].namespace
                = IF Spelled(xast.snippets, {"ns_App", "ns_Other"}) = <<>>
                  THEN None
                  ELSE Some(Head(Spelled(xast.snippets, {"ns_App", "ns_Other"})))

C13_Witness ==
    /\ Len(xast.snippets) >= 2
    /\ xast.snippets[1] = "ns_Other"
    /\ xast.snippets[2] = "ns_App"
    /\ Len(records) >= 1
    /\ Len(parses) >= 1
    /\ records[1].namespace = Some(s_Other)

C13_WitnessAbsent ==
    /\ ~HasSnippet("ns_App")
    /\ ~HasSnippet("ns_Other")
    /\ Len(xast.snippets) >= 1
    /\ Len(records) >= 1
    /\ records[1].namespace = None

(***************************************************************************)
(* ai_doc_generator.py: the summary generate_project_overview builds for   *)
(* its prompt from the structure get_project_structure returns, for a      *)
(* parser that discovered a number of files.                               *)
(***************************************************************************)
MaxFiles == 22

MaxShift == 2

\* [:20] of the file loop
PromptFileLimit == 20

\* the k-th file discovered: the walk does not go by name, and the classes
\* found differ from file to file
discovered_name(k, shift) == ((k + shift - 1) % MaxFiles) + 1

discovered_file(k, shift) ==
    [CSharpFile("/repo/src/File" \o ToString(discovered_name(k, shift)) \o ".cs",
                "src/File" \o ToString(discovered_name(k, shift)) \o ".cs")
        EXCEPT !.classes = Some([c \in 1..(discovered_name(k, shift) % 3) |->
                                    [name |-> "C" \o ToString(c), methods |-> <<>>]])]

discovered(n, shift) == [k \in 1..n |-> discovered_file(k, shift)]

\* the listing grown without the limit
structure_summary_uncapped(project_structure) ==
    [root_path |-> project_structure.root_path,
     solution_files |-> Len(project_structure.solution_files),
     project_files |-> Len(project_structure.project_files),
     csharp_files |-> Len(project_structure.csharp_files),
     files |-> [k \in 1..Len(project_structure.csharp_files) |->
                    [relative_path |-> project_structure.csharp_files[k].relative_path,
                     classes_count |-> project_structure.csharp_files[k].classes_count]]]

\* structure_summary of generate_project_overview: the counts, then one line
\* for each of the first 20 files
structure_summary(project_structure) ==
    [root_path |-> project_structure.root_path,
     solution_files |-> Len(project_structure.solution_files),
     project_files |-> Len(project_structure.project_files),
     csharp_files |-> Len(project_structure.csharp_files),
     files |-> [k \in 1..Min({PromptFileLimit, Len(project_structure.csharp_files)}) |->
                    [relative_path |-> project_structure.csharp_files[k].relative_path,
                     classes_count |-> project_structure.csharp_files[k].classes_count]]]

InitOverview ==
    /\ ExtractIdle
    /\ RepoIdle
    /\ WebIdle
    /\ docgen = None
    /\ generator = None
    /\ handler = None
    /\ branch_listing = None
    /\ \E n \in 0..MaxFiles, shift \in 0..MaxShift :
          overview = [csharp_files |-> discovered(n, shift),
                      project_structure |-> None,
                      structure_summary |-> None]

\* project_structure = parser.get_project_structure()
OverviewStructure ==
    /\ overview.project_structure.is_none
    /\ overview' = [overview EXCEPT !.project_structure =
                        Some(get_project_structure(<<"/", "repo">>,
                                                   overview.csharp_files))]
    /\ UNCHANGED <<extractVars, repoVars, webVars, docgen, generator, handler,
                   branch_listing>>

\* generator.generate_project_overview(project_structure), up to the prompt
OverviewSummary ==
    /\ ~overview.project_structure.is_none
    /\ overview.structure_summary.is_none
    /\ overview' = [overview EXCEPT !.structure_summary =
                        Some(structure_summary(overview.project_structure.v))]
    /\ UNCHANGED <<extractVars, repoVars, webVars, docgen, generator, handler,
                   branch_listing>>

NextOverview == OverviewStructure \/ OverviewSummary

SpecOverview == InitOverview /\ [][NextOverview]_vars

\* C14: the file listing of the overview prompt has at most 20 entries, the
\* first 20 records of csharp_files in the order of discovery; the file count
\* of the prompt and the csharp_files of get_project_structure cover every
\* discovered file.
C14_PromptListingCapped ==
    /\ ~overview.project_structure.is_none =>
          /\ Len(overview.project_structure.v.csharp_files)
                = Len(overview.csharp_files)
          /\ \A k \in 1..Len(overview.csharp_files) :
                overview.project_structure.v.csharp_files[k].relative_path
                    = overview.csharp_files[k].relative_path
    /\ ~overview.structure_summary.is_none =>
          /\ Len(overview.structure_summary.v.files) <= 20
          /\ Len(overview.structure_summary.v.files)
                = Min({20, Len(overview.csharp_files)})
          /\ \A k \in 1..Len(overview.structure_summary.v.files) :
                /\ overview.structure_summary.v.files[k].relative_path
                      = overview.csharp_files[k].relative_path
                /\ overview.structure_summary.v.files[k].classes_count
                      = Len(overview.csharp_files[k].classes.v)
          /\ overview.structure_summary.v.csharp_files
                = Len(overview.csharp_files)

C14_Witness ==
    /\ ~overview.structure_summary.is_none
    /\ Len(overview.csharp_files) > 20
    /\ Len(overview.structure_summary.v.files) = 20
    /\ overview.structure_summary.v.csharp_files = Len(overview.csharp_files)
    /\ overview.csharp_files[1].relative_path # "src/File1.cs"

(***************************************************************************)
(* ai_doc_generator.py: AIDocGenerator.__init__ and _call_ai_api.  The     *)
(* environment says which keys are set; every call of a provider is a step *)
(* that succeeds or raises, and is written to the log of calls.            *)
(***************************************************************************)
openrouter_models ==
    <<"mistralai/mistral-7b-instruct:free", "google/gemini-flash-1.5:free",
      "meta-llama/llama-3.2-3b-instruct:free">>

Environments ==
    [AZURE_OPENAI_API_KEY : BOOLEAN, AZURE_OPENAI_ENDPOINT : BOOLEAN,
     OPENAI_API_KEY : BOOLEAN, OPENROUTER_API_KEY : BOOLEAN]

InitCallAI ==
    /\ ExtractIdle
    /\ RepoIdle
    /\ WebIdle
    /\ docgen = None
    /\ overview = None
    /\ handler = None
    /\ branch_listing = None
    /\ \E env \in Environments :
          generator = [env |-> env, pc |-> "new",
                       azure_openai_client |-> FALSE, openai_client |-> FALSE,
                       openrouter_api_key |-> FALSE, model |-> 1,
                       calls |-> <<>>, returned |-> None, raised |-> None]

\* __init__: a client for each service whose keys are set, unless its
\* constructor raises
GeneratorInit ==
    /\ generator.pc = "new"
    /\ \E azure_built, openai_built \in BOOLEAN :
          generator' =
             [generator EXCEPT
                 !.azure_openai_client =
                     generator.env.AZURE_OPENAI_API_KEY
                     /\ generator.env.AZURE_OPENAI_ENDPOINT /\ azure_built,
                 !.openai_client = generator.env.OPENAI_API_KEY /\ openai_built,
                 !.openrouter_api_key = generator.env.OPENROUTER_API_KEY,
                 !.pc = "azure"]
    /\ UNCHANGED <<extractVars, repoVars, webVars, docgen, overview, handler,
                   branch_listing>>

\* the content a provider answers with
content_of(provider) == "documentation by " \o provider

\* a call that continues with the next provider although it answered
after_call_falls_through(answered, next) == next

\* a call returns from _call_ai_api when it answered, and goes on otherwise
after_call(answered, next) == IF answered THEN "returned" ELSE next

called(g, provider, answered, next) ==
    [g EXCEPT !.calls = Append(@, [provider |-> provider, answered |-> answered]),
              !.pc = after_call(answered, next),
              !.returned = IF after_call(answered, next) = "returned"
                           THEN Some(content_of(provider)) ELSE @]

\* lines 214-228: Azure OpenAI first
TryAzure ==
    /\ generator.pc = "azure"
    /\ IF generator.azure_openai_client
       THEN \E answered \in BOOLEAN :
               generator' = called(generator, "azure", answered, "openai")
       ELSE generator' = [generator EXCEPT !.pc = "openai"]
    /\ UNCHANGED <<extractVars, repoVars, webVars, docgen, overview, handler,
                   branch_listing>>

\* lines 230-244: then OpenAI
TryOpenAI ==
    /\ generator.pc = "openai"
    /\ IF generator.openai_client
       THEN \E answered \in BOOLEAN :
               generator' = called(generator, "openai", answered, "openrouter")
       ELSE generator' = [generator EXCEPT !.pc = "openrouter"]
    /\ UNCHANGED <<extractVars, repoVars, webVars, docgen, overview, handler,
                   branch_listing>>

\* lines 246-281: then the models of OpenRouter, one turn of the loop
TryOpenRouter ==
    /\ generator.pc = "openrouter"
    /\ IF generator.openrouter_api_key /\ generator.model <= Len(openrouter_models)
       THEN \E answered \in BOOLEAN :
               generator' =
                  [called(generator, openrouter_models[generator.model],
                          answered, "openrouter")
                      EXCEPT !.model = @ + 1]
       ELSE generator' = [generator EXCEPT !.pc = "raise"]
    /\ UNCHANGED <<extractVars, repoVars, webVars, docgen, overview, handler,
                   branch_listing>>

\* lines 283-303: the exception when nothing has returned
RaiseNoKey ==
    /\ generator.pc = "raise"
    /\ generator' = [generator EXCEPT !.pc = "raised",
                                      !.raised = Some("No AI API key configured!")]
    /\ UNCHANGED <<extractVars, repoVars, webVars, docgen, overview, handler,
                   branch_listing>>

NextCallAI == GeneratorInit \/ TryAzure \/ TryOpenAI \/ TryOpenRouter \/ RaiseNoKey

SpecCallAI == InitCallAI /\ [][NextCallAI]_vars

\* the providers in the order of the claim, and whether the environment
\* configures one
ProviderOrder ==
    <<"azure", "openai", "mistralai/mistral-7b-instruct:free",
      "google/gemini-flash-1.5:free", "meta-llama/llama-3.2-3b-instruct:free">>

RankOf(provider) == CHOOSE r \in 1..Len(ProviderOrder) : ProviderOrder[r] = provider

IsConfigured(env, provider) ==
    CASE provider = "azure" -> env.AZURE_OPENAI_API_KEY /\ env.AZURE_OPENAI_ENDPOINT
      [] provider = "openai" -> env.OPENAI_API_KEY
      [] OTHER -> env.OPENROUTER_API_KEY

\* a configured provider has failed when its call raised, or when its client
\* could not be built in __init__
HasFailed(g, provider) ==
    \/ \E k \in 1..Len(g.calls) :
          g.calls[k].provider = provider /\ ~g.calls[k].answered
    \/ provider = "azure" /\ ~g.azure_openai_client
    \/ provider = "openai" /\ ~g.openai_client

\* C17: the providers are called in the order Azure OpenAI, OpenAI, then the
\* OpenRouter models mistral-7b, gemini-flash-1.5, llama-3.2-3b; one is called
\* only if it is configured and every configured provider before it has
\* failed; the value returned is the content of the first call that answered,
\* and no provider is called after it.
C17_ProviderOrder ==
    /\ \A k \in 1..Len(generator.calls) :
          /\ IsConfigured(generator.env, generator.calls[k].provider)
          /\ \A j \in 1..(k - 1) :
                /\ RankOf(generator.calls[j].provider)
                      < RankOf(generator.calls[k].provider)
                /\ ~generator.calls[j].answered
          /\ \A r \in 1..(RankOf(generator.calls[k].provider) - 1) :
                IsConfigured(generator.env, ProviderOrder[r])
                    => HasFailed(generator, ProviderOrder[r])
          /\ generator.calls[k].answered =>
                /\ k = Len(generator.calls)
                /\ generator.pc = "returned"
    /\ generator.pc = "returned" =>
          /\ generator.calls # <<>>
          /\ generator.calls[Len(generator.calls)].answered
          /\ generator.returned
                = Some("documentation by "
                       \o generator.calls[Len(generator.calls)].provider)
    /\ generator.pc # "returned" => generator.returned = None

C17_Witness ==
    /\ generator.pc = "returned"
    /\ Len(generator.calls) = 4
    /\ generator.calls[1].provider = "azure"
    /\ generator.calls[2].provider = "openai"
    /\ generator.calls[4].provider = "google/gemini-flash-1.5:free"
    /\ generator.returned = Some("documentation by google/gemini-flash-1.5:free")

AnyConfigured(env) ==
    \/ env.AZURE_OPENAI_API_KEY /\ env.AZURE_OPENAI_ENDPOINT
    \/ env.OPENAI_API_KEY
    \/ env.OPENROUTER_API_KEY

\* C18: _call_ai_api raises the 'No AI API key configured' exception exactly
\* when no provider is configured: it ends by raising it whenever none is,
\* and never raises it when one is.
C18_NoKeyOnlyWithoutKeys ==
    /\ generator.pc = "raised" => ~AnyConfigured(generator.env)
    /\ (generator.pc \in {"returned", "raised"} /\ ~AnyConfigured(generator.env))
          => generator.pc = "raised"

(***************************************************************************)
(* github_repo_handler.py: get_branches.  Every turn of its loop sends one *)
(* request; the server answers with a page of branch names or an error     *)
(* status, or the request raises.  The repository has at most MaxPages     *)
(* full pages of branches.                                                 *)
(***************************************************************************)
MaxPages == 3

\* the number of retries after a 403 is counted up to MaxRetries
MaxRetries == 2

per_page == 100

\* the names on page p of the server's answer, n of them
page_names(p, n) == [i \in 1..n |-> "b" \o ToString(1000 * p + 100 + i)]

\* answers with fewer than per_page names, in the order the server sends
ShortPages(p) == {<<"main">>, <<"zeta", "main", "alpha">>, <<"zeta", "alpha">>,
                  page_names(p, per_page - 1)}

\* what get_repo_info gives as default_branch; "main" also stands for the
\* default taken when the information could not be fetched
DefaultBranches == {"main", "zeta", "trunk"}

RepoUrls == {"https://github.com/owner/repo", "owner/repo",
             "https://gitlab.com/owner/repo", "repo"}

InitBranches ==
    /\ ExtractIdle
    /\ RepoIdle
    /\ WebIdle
    /\ docgen = None
    /\ overview = None
    /\ generator = None
    /\ handler = None
    /\ \E url \in RepoUrls, token \in BOOLEAN :
          branch_listing = [repo_url |-> url, token |-> token, pc |-> "start",
                            authorization |-> FALSE, page |-> 1, branches |-> <<>>,
                            retries |-> 0, returned |-> None, raised |-> FALSE,
                            default_branch |-> None, failed |-> FALSE]

\* _normalize_repo_url
normalize_repo_url(url) ==
    CASE url \in {"https://github.com/owner/repo", "https://gitlab.com/owner/repo"}
            -> Some(url)
      [] url = "owner/repo" -> Some("https://github.com/owner/repo")
      [] OTHER -> None

\* lines 133-147: the URL, and the headers of the requests
BranchesStart ==
    /\ branch_listing.pc = "start"
    /\ branch_listing' =
          IF normalize_repo_url(branch_listing.repo_url).is_none
          THEN [branch_listing EXCEPT !.pc = "returned", !.raised = TRUE]
          ELSE IF normalize_repo_url(branch_listing.repo_url).v
                    # "https://github.com/owner/repo"
          THEN [branch_listing EXCEPT !.pc = "returned", !.returned = Some(<<>>)]
          ELSE [branch_listing EXCEPT !.pc = "request",
                                      !.authorization = branch_listing.token]
    /\ UNCHANGED <<extractVars, repoVars, webVars, docgen, overview, generator, handler>>

\* lines 171-176: after a 403 the header is removed and the request sent
\* again whenever the handler has a token
forbidden(b) ==
    IF b.token
    THEN [b EXCEPT !.authorization = FALSE,
                   !.retries = Min({@ + 1, MaxRetries})]
    ELSE [b EXCEPT !.pc = "sort"]

\* lines 154-177: one turn of the while loop
BranchesRequest ==
    /\ branch_listing.pc = "request"
    /\ \E response \in {"200 empty", "200 short", "200 full", "404", "403",
                        "500", "timeout"} :
          \/ /\ response = "200 empty"
             /\ branch_listing' = [branch_listing EXCEPT !.pc = "sort"]
          \/ /\ response = "200 short"
             /\ \E data \in ShortPages(branch_listing.page) :
                   branch_listing' = [branch_listing EXCEPT !.branches = @ \o data,
                                                            !.pc = "sort"]
          \/ /\ response = "200 full"
             /\ branch_listing.page < MaxPages
             /\ branch_listing' = [branch_listing EXCEPT
                                      !.branches =
                                         @ \o page_names(branch_listing.page,
                                                         per_page),
                                                         !.page = @ + 1]
          \/ /\ response \in {"404", "500"}
             /\ branch_listing' = [branch_listing EXCEPT !.pc = "sort"]
          \/ /\ response = "403"
             /\ branch_listing' = forbidden(branch_listing)
          \/ /\ response = "timeout"
             /\ branch_listing' =
                   [branch_listing EXCEPT
                       !.pc = "returned",
                       !.failed = TRUE,
                       !.returned = Some(<<"main", "master", "develop">>)]
    /\ UNCHANGED <<extractVars, repoVars, webVars, docgen, overview, generator, handler>>

\* lines 183-185: the default branch, when in the list, is moved to the front
default_first(names, default_branch) ==
    IF \E i \in 1..Len(names) : names[i] = default_branch
    THEN LET i == Min({k \in 1..Len(names) : names[k] = default_branch})
         IN  <<default_branch>> \o SubSeq(names, 1, i - 1)
                                \o SubSeq(names, i + 1, Len(names))
    ELSE names

\* lines 179-188: the default branch first, or the fallback names
BranchesSort ==
    /\ branch_listing.pc = "sort"
    /\ \E default_branch \in DefaultBranches :
          branch_listing' =
             [branch_listing EXCEPT
                 !.pc = "returned",
                 !.default_branch = Some(default_branch),
                 !.returned =
                    IF default_first(branch_listing.branches, default_branch) # <<>>
                    THEN Some(default_first(branch_listing.branches,
                                            default_branch))
                    ELSE Some(<<"main", "master">>)]
    /\ UNCHANGED <<extractVars, repoVars, webVars, docgen, overview, generator, handler>>

NextBranches == BranchesStart \/ BranchesRequest \/ BranchesSort

SpecBranches == InitBranches /\ [][NextBranches]_vars

\* C19: get_branches ends its loop on an empty page, a short page, a 404 or
\* any other error status, and after a 403 it sends the request again
\* without the Authorization header at most once before it stops.
C19_RetriesAtMostOnce == branch_listing.retries <= 1

(***************************************************************************)
(* github_repo_handler.py: clone_repository.  Each run of git clone is a   *)
(* step that succeeds or ends with a non-zero status (CalledProcessError). *)
(***************************************************************************)
Branches == {"main", "develop", "release"}

InitClone ==
    /\ ExtractIdle
    /\ RepoIdle
    /\ WebIdle
    /\ docgen = None
    /\ overview = None
    /\ generator = None
    /\ branch_listing = None
    /\ \E url \in RepoUrls, branch \in Branches, target_dir \in BOOLEAN :
          handler = [repo_url |-> url, requested |-> branch, branch |-> branch,
                     target_dir |-> target_dir, repo_path |-> None,
                     pc |-> "start", attempts |-> <<>>, returned |-> None,
                     raised |-> None, temp_dir |-> None, dirs |-> {},
                     removals |-> <<>>, removed |-> {}, warned |-> FALSE,
                     cleanup_raised |-> FALSE]

\* lines 53-67: the URL and the directory to clone into
CloneStart ==
    /\ handler.pc = "start"
    /\ handler' =
          IF normalize_repo_url(handler.repo_url).is_none
          THEN [handler EXCEPT !.pc = "done", !.raised = Some("ValueError")]
          ELSE [handler EXCEPT
                   !.pc = "clone",
                   !.repo_path = IF handler.target_dir THEN Some("target_dir")
                                 ELSE Some("docgen_/repo"),
                   !.temp_dir = IF handler.target_dir THEN @ ELSE Some("docgen_"),
                   !.dirs = IF handler.target_dir THEN @ ELSE @ \cup {"docgen_"}]
    /\ UNCHANGED <<extractVars, repoVars, webVars, docgen, overview, generator,
                   branch_listing>>

\* a run of git clone; a clone into target_dir makes that directory
attempt(h, cloned) ==
    [h EXCEPT !.attempts = Append(@, [branch |-> h.branch, cloned |-> cloned]),
              !.dirs = IF cloned /\ h.target_dir THEN @ \cup {"target_dir"} ELSE @]

\* lines 69-74: git clone --branch self.branch
CloneFirst ==
    /\ handler.pc = "clone"
    /\ \E cloned \in BOOLEAN :
          handler' =
             IF cloned
             THEN [attempt(handler, TRUE) EXCEPT !.pc = "done",
                                                 !.returned = handler.repo_path]
             ELSE IF handler.branch # "main"
             THEN [attempt(handler, FALSE) EXCEPT !.pc = "retry", !.branch = "main"]
             ELSE [attempt(handler, FALSE) EXCEPT
                      !.pc = "done",
                      !.raised = Some("Failed to clone repository")]
    /\ UNCHANGED <<extractVars, repoVars, webVars, docgen, overview, generator,
                   branch_listing>>

\* lines 77-83: the second git clone, run inside the except clause, where
\* its CalledProcessError is not caught
CloneMain ==
    /\ handler.pc = "retry"
    /\ \E cloned \in BOOLEAN :
          handler' =
             IF cloned
             THEN [attempt(handler, TRUE) EXCEPT !.pc = "done",
                                                 !.returned = handler.repo_path]
             ELSE [attempt(handler, FALSE) EXCEPT
                      !.pc = "done", !.raised = Some("CalledProcessError")]
    /\ UNCHANGED <<extractVars, repoVars, webVars, docgen, overview, generator,
                   branch_listing>>

max_attempts == 3

\* the directory the clone went to, in the place of the temporary one
cleanup_dir_cloned(h) ==
    IF h.target_dir /\ "target_dir" \in h.dirs THEN Some("target_dir")
    ELSE h.temp_dir

\* the directory cleanup removes: self.temp_dir
cleanup_dir(h) == h.temp_dir

\* line 199 of cleanup, called when no clone was made or after one, from the
\* program or from __exit__: nothing to do without a temporary directory
CleanupBegin ==
    /\ handler.pc \in {"start", "done"}
    /\ handler' =
          IF ~cleanup_dir(handler).is_none /\ cleanup_dir(handler).v \in handler.dirs
          THEN [handler EXCEPT !.pc = "rmtree"]
          ELSE [handler EXCEPT !.pc = "cleaned"]
    /\ UNCHANGED <<extractVars, repoVars, webVars, docgen, overview, generator,
                   branch_listing>>

\* lines 203-222: one turn of the loop of removals
CleanupAttempt ==
    /\ handler.pc = "rmtree"
    /\ \E outcome \in {"removed", "PermissionError", "OSError"} :
          handler' =
             CASE outcome = "removed" ->
                     [handler EXCEPT
                         !.removals = Append(@, outcome),
                         !.dirs = @ \ {cleanup_dir(handler).v},
                         !.removed = @ \cup {cleanup_dir(handler).v},
                         !.pc = "cleaned"]
               [] outcome = "PermissionError"
                    /\ Len(handler.removals) < max_attempts - 1 ->
                     [handler EXCEPT !.removals = Append(@, outcome)]
               [] OTHER ->
                     [handler EXCEPT !.removals = Append(@, outcome),
                                     !.warned = TRUE,
                                     !.pc = "cleaned"]
    /\ UNCHANGED <<extractVars, repoVars, webVars, docgen, overview, generator,
                   branch_listing>>

NextClone ==
    CloneStart \/ CloneFirst \/ CloneMain \/ CleanupBegin \/ CleanupAttempt

SpecClone == InitClone /\ [][NextClone]_vars

\* C20: clone_repository runs git clone at most twice, the second time only
\* after the first failed for a branch other than 'main', and then for
\* 'main'; when it returns a path self.branch is the branch cloned; when no
\* run succeeds it raises the 'Failed to clone repository' exception.
C20_CloneAttempts ==
    /\ Len(handler.attempts) <= 2
    /\ Len(handler.attempts) = 2 =>
          /\ ~handler.attempts[1].cloned
          /\ handler.requested # "main"
          /\ handler.attempts[1].branch = handler.requested
          /\ handler.attempts[2].branch = "main"
    /\ ~handler.returned.is_none =>
          /\ handler.attempts[Len(handler.attempts)].cloned
          /\ handler.branch = handler.attempts[Len(handler.attempts)].branch
    /\ (handler.pc = "done" /\ handler.attempts # <<>>
          /\ \A k \in 1..Len(handler.attempts) : ~handler.attempts[k].cloned)
          => handler.raised = Some("Failed to clone repository")

\* C21: cleanup never raises; it tries the removal at most 3 times, again
\* only after a PermissionError; a removal that fails in the end leaves a
\* warning; it removes nothing but the temporary directory the handler made,
\* and nothing at all after a clone into target_dir or without a clone.
C21_CleanupContained ==
    /\ ~handler.cleanup_raised
    /\ Len(handler.removals) <= 3
    /\ \A k \in 1..(Len(handler.removals) - 1) :
          handler.removals[k] = "PermissionError"
    /\ (handler.pc = "cleaned" /\ handler.removals # <<>>
          /\ handler.removals[Len(handler.removals)] # "removed")
          => handler.warned
    /\ handler.removed \subseteq {"docgen_"}
    /\ (handler.target_dir \/ handler.attempts = <<>>) =>
          /\ handler.removals = <<>>
          /\ handler.removed = {}
    /\ handler.pc = "cleaned" =>
          \/ handler.removals # <<>>
          \/ handler.temp_dir.is_none
          \/ handler.temp_dir.v \notin handler.dirs

C21_Witness ==
    /\ handler.pc = "cleaned"
    /\ handler.removals = <<"PermissionError", "PermissionError", "PermissionError">>
    /\ handler.warned
    /\ "docgen_" \in handler.dirs

RECURSIVE PagesUpTo(_)
\* every name of pages 1..p, in alphabetical order
PagesUpTo(p) == IF p = 0 THEN <<>> ELSE PagesUpTo(p - 1) \o page_names(p, per_page)

Alphabetical ==
    <<"alpha">> \o PagesUpTo(MaxPages) \o <<"develop", "main", "master", "zeta">>

AlphabeticalRank(name) ==
    CHOOSE k \in 1..Len(Alphabetical) : Alphabetical[k] = name

InAlphabeticalOrder(names) ==
    \A i \in 1..(Len(names) - 1) :
       AlphabeticalRank(names[i]) <= AlphabeticalRank(names[i + 1])

\* C22: the list get_branches returns is never empty; it is the fallback
\* main, master when no branch was fetched (main, master, develop after an
\* exception), and otherwise the default branch followed by the other
\* branches in alphabetical order.
C22_BranchesSorted ==
    ~branch_listing.returned.is_none =>
       LET names == branch_listing.returned.v
       IN  /\ names # <<>>
           /\ branch_listing.failed => names = <<"main", "master", "develop">>
           /\ (~branch_listing.failed /\ branch_listing.branches = <<>>)
                 => names = <<"main", "master">>
           /\ (~branch_listing.failed /\ branch_listing.branches # <<>>) =>
                 IF \E i \in 1..Len(names) :
                       Some(names[i]) = branch_listing.default_branch
                 THEN /\ Some(names[1]) = branch_listing.default_branch
                      /\ InAlphabeticalOrder(Tail(names))
                 ELSE InAlphabeticalOrder(names)

\* the part of C22 that holds: a list fetched from the server is returned
\* with the default branch moved to the front and the rest in the order
\* received
BranchesDefaultFirst ==
    (branch_listing.pc = "returned" /\ ~branch_listing.failed
        /\ branch_listing.branches # <<>>) =>
       /\ Len(branch_listing.returned.v) = Len(branch_listing.branches)
       /\ (\E i \in 1..Len(branch_listing.branches) :
              Some(branch_listing.branches[i]) = branch_listing.default_branch)
             => Some(branch_listing.returned.v[1]) = branch_listing.default_branch

\* C23: a background generation that has set the status to 'error' does not
\* afterwards set it to 'completed': a run that ended 'completed' recorded
\* no error status.
C23_NoCompletedAfterError ==
    \A b \in 1..MaxTasks :
        (IsFree(b) /\ tasks[b].pc = "completed") => ~tasks[b].erred

\* the runs in progress
Running == {b \in 1..MaxTasks : tasks[b].kind \in {"generate_bg", "code_bg"}}

\* C24: at most one background generation is in progress at a time: a
\* request to generate made while the status is 'generating' starts no
\* second thread.
C24_SingleRun == Cardinality(Running) <= 1

\* C25: a generation that ended 'completed' wrote a page for every file the
\* request selected, whatever the language.
C25_EverySelectedFileDocumented ==
    \A b \in 1..MaxTasks :
        (IsFree(b) /\ tasks[b].pc = "completed"
            /\ tasks[b].language \in Languages) =>
           Len(tasks[b].file_docs) = Cardinality(tasks[b].selected_files)

(***************************************************************************)
(* generate_docs.py: generate_file_documentation and update_index_rst.     *)
(* Paths and names are sequences of characters.                            *)
(***************************************************************************)
MaxDocs == 3

\* the relative paths a repository may hold; the first two get the same
\* page name
DocPaths ==
    {<<"a", "/", "B", ".", "c", "s">>,
     <<"a", "_", "B", ".", "c", "s">>,
     <<"a", "\\", "C", ".", "c", "s">>,
     <<"D", ".", "c", "s", ".", "c", "s">>}

RECURSIVE replace(_, _, _)
\* str.replace for a pattern of one character
replace(text, old, new) ==
    IF text = <<>> THEN <<>>
    ELSE (IF Head(text) = old THEN new ELSE <<Head(text)>>)
            \o replace(Tail(text), old, new)

RECURSIVE remove_cs(_)
\* .replace(".cs", "")
remove_cs(text) ==
    IF text = <<>> THEN <<>>
    ELSE IF Len(text) >= 3 /\ SubSeq(text, 1, 3) = <<".", "c", "s">>
         THEN remove_cs(SubSeq(text, 4, Len(text)))
         ELSE <<Head(text)>> \o remove_cs(Tail(text))

\* line 47
safe_name(relative_path) ==
    remove_cs(replace(replace(relative_path, "\\", <<"_">>), "/", <<"_">>))

\* line 51
title_of(relative_path) ==
    replace(replace(relative_path, "\\", <<" ", "/", " ">>), "/",
            <<" ", "/", " ">>)

\* lines 67-71 taken after every file, a failed one too
file_documented_always(file_docs, relative_path, outcome) ==
    Append(file_docs, [name |-> safe_name(relative_path),
                       title |-> title_of(relative_path),
                       path |-> relative_path])

\* lines 35-78: the entry is appended after the page is written; an
\* exception before that leaves the loop body for the next file
file_documented(file_docs, relative_path, outcome) ==
    IF outcome = "written"
    THEN Append(file_docs, [name |-> safe_name(relative_path),
                            title |-> title_of(relative_path),
                            path |-> relative_path])
    ELSE file_docs

\* lines 125-142: the lines of the toctree
index_lines(file_docs, has_overview) ==
    (IF has_overview THEN <<<<"project_overview">>>> ELSE <<>>)
       \o <<<<"API Reference">>, <<":caption: API Reference:">>>>
       \o [i \in 1..Len(file_docs) |-> file_docs[i].name]

InitIndex ==
    /\ ExtractIdle
    /\ RepoIdle
    /\ WebIdle
    /\ overview = None
    /\ generator = None
    /\ handler = None
    /\ branch_listing = None
    /\ \E files \in SeqsUpTo(DocPaths, MaxDocs) :
          /\ \A i, j \in 1..Len(files) : files[i] = files[j] => i = j
          /\ docgen = [csharp_files |-> files, next |-> 1, file_docs |-> <<>>,
                       pages |-> {}, written |-> <<>>, failed |-> <<>>,
                       index |-> None, pc |-> "files"]

\* generate_file_documentation, lines 32-78: one turn of the loop
DocFile ==
    /\ docgen.pc = "files"
    /\ docgen.next <= Len(docgen.csharp_files)
    /\ \E outcome \in {"written", "read failed", "generator failed",
                       "write failed"} :
          LET relative_path == docgen.csharp_files[docgen.next]
          IN  docgen' =
                 [docgen EXCEPT
                     !.next = @ + 1,
                     !.file_docs = file_documented(@, relative_path, outcome),
                     !.pages = IF outcome = "written"
                               THEN @ \cup {safe_name(relative_path)} ELSE @,
                     !.written = IF outcome = "written"
                                 THEN Append(@, docgen.next) ELSE @,
                     !.failed = IF outcome = "written"
                                THEN @ ELSE Append(@, docgen.next)]
    /\ UNCHANGED <<extractVars, repoVars, webVars, overview, generator, handler,
                   branch_listing>>

\* line 80: the list is returned when the loop is over
DocReturn ==
    /\ docgen.pc = "files"
    /\ docgen.next > Len(docgen.csharp_files)
    /\ docgen' = [docgen EXCEPT !.pc = "index"]
    /\ UNCHANGED <<extractVars, repoVars, webVars, overview, generator, handler,
                   branch_listing>>

\* update_index_rst, called by main with the list returned
DocIndex ==
    /\ docgen.pc = "index"
    /\ docgen' = [docgen EXCEPT
                     !.index = Some(index_lines(docgen.file_docs, TRUE)),
                     !.pc = "done"]
    /\ UNCHANGED <<extractVars, repoVars, webVars, overview, generator, handler,
                   branch_listing>>

NextIndex == DocFile \/ DocReturn \/ DocIndex

SpecIndex == InitIndex /\ [][NextIndex]_vars

\* the lines of index.rst after those of the overview and the caption
Listed == SubSeq(docgen.index.v, 4, Len(docgen.index.v))

\* C26: generate_file_documentation goes on after a file whose processing
\* raised, and index.rst then lists the files whose page was written, one
\* line for each in the order they were processed, and no failed file.
C26_IndexListsWritten ==
    docgen.pc = "done" =>
       /\ Len(docgen.written) + Len(docgen.failed) = Len(docgen.csharp_files)
       /\ Len(Listed) = Len(docgen.written)
       /\ \A i \in 1..Len(Listed) :
             /\ Listed[i] = safe_name(docgen.csharp_files[docgen.written[i]])
             /\ Listed[i] \in docgen.pages
             /\ \A j \in 1..Len(Listed) :
                   i < j => docgen.written[i] < docgen.written[j]
       /\ \A k \in 1..Len(docgen.failed) :
             \A i \in 1..Len(docgen.written) :
                docgen.written[i] # docgen.failed[k]

C26_Witness ==
    /\ docgen.pc = "done"
    /\ Len(docgen.csharp_files) = 3
    /\ docgen.written = <<1, 3>>
    /\ docgen.failed = <<2>>
    /\ Len(Listed) = 2

=============================================================================
